---------------------------- MODULE Spec2Model ----------------------------
(***************************************************************************)
(* A model of hone's execution engine: the sentinel protocol               *)
(* (src/core/runner/sentinel.ts), the shell session                        *)
(* (src/core/runner/shell.ts) and the executor (src/core/runner/index.ts). *)
(*                                                                         *)
(* Strings are sequences of one-character strings.  The eight characters   *)
(* of the sentinel prefix are carried as the single symbol "__HONE__".     *)
(***************************************************************************)
EXTENDS Integers, Sequences, FiniteSets, TLC

(***************************************************************************)
(* Bounds of the model.                                                    *)
(***************************************************************************)
\* number of chunks the reader may append in the sentinel specification
MaxAppends == 2
\* number of files a pattern resolves to
NumFiles == 2
\* number of AST nodes of a parsed file, when two files are run; one less
\* for each further file, and at least one
MaxNodes == 1
\* number of AST nodes of a parsed file that is run alone
MaxNodesAlone == 4
\* number of parse errors of a file
MaxParseErrors == 2
\* number of stop() calls on one session
MaxStops == 2

(***************************************************************************)
(* Characters.                                                             *)
(***************************************************************************)
\* sentinel.ts:8
UNIT_SEPARATOR == "US"
\* sentinel.ts:9
SENTINEL_PREFIX == <<"__HONE__">>
NL == "\n"
\* the characters String.prototype.trim removes
WhiteSpace == {" ", "\t", "\r", NL}
DigitChars == <<"0", "1", "2", "3", "4", "5", "6", "7", "8", "9">>
IsDigit(c) == \E i \in 1..10 : DigitChars[i] = c
DigitValue(c) == (CHOOSE i \in 1..10 : DigitChars[i] = c) - 1

(***************************************************************************)
(* JavaScript string operations, on sequences of characters.               *)
(***************************************************************************)
Min(a, b) == IF a < b THEN a ELSE b
Max(a, b) == IF a > b THEN a ELSE b

\* s.substring(from, to): 0-based, `to' exclusive, both clamped
Substring(s, from, to) ==
  LET a == Max(0, Min(from, Len(s)))
      b == Max(0, Min(to, Len(s)))
  IN  SubSeq(s, Min(a, b) + 1, Max(a, b))

\* s.substring(from)
SubstringFrom(s, from) == Substring(s, from, Len(s))

\* does pat occur in s at 0-based offset i
OccursAt(s, pat, i) ==
  /\ i >= 0
  /\ i + Len(pat) <= Len(s)
  /\ SubSeq(s, i + 1, i + Len(pat)) = pat

\* s.indexOf(pat): the first occurrence, or -1
IndexOf(s, pat) ==
  IF \E i \in 0..Len(s) : OccursAt(s, pat, i)
  THEN CHOOSE i \in 0..Len(s) :
         /\ OccursAt(s, pat, i)
         /\ \A j \in 0..(i - 1) : ~OccursAt(s, pat, j)
  ELSE -1

\* s.includes(pat)
Includes(s, pat) == IndexOf(s, pat) # -1

\* s.startsWith(pat)
StartsWith(s, pat) == OccursAt(s, pat, 0)

\* s.endsWith(pat)
EndsWith(s, pat) == OccursAt(s, pat, Len(s) - Len(pat))

RECURSIVE TrimStart(_)
TrimStart(s) ==
  IF s # <<>> /\ Head(s) \in WhiteSpace THEN TrimStart(Tail(s)) ELSE s

RECURSIVE TrimEnd(_)
TrimEnd(s) ==
  IF s # <<>> /\ s[Len(s)] \in WhiteSpace
  THEN TrimEnd(SubSeq(s, 1, Len(s) - 1))
  ELSE s

\* s.trim()
Trim(s) == TrimEnd(TrimStart(s))

\* s.split(sep) for a one-character separator
RECURSIVE Split(_, _)
Split(s, sep) ==
  LET i == IndexOf(s, <<sep>>)
  IN  IF i = -1
      THEN <<s>>
      ELSE <<Substring(s, 0, i)>> \o Split(SubstringFrom(s, i + 1), sep)

\* the longest prefix of s made of digits
RECURSIVE LeadingDigits(_)
LeadingDigits(s) ==
  IF s # <<>> /\ IsDigit(Head(s))
  THEN <<Head(s)>> \o LeadingDigits(Tail(s))
  ELSE <<>>

RECURSIVE DecimalValue(_)
DecimalValue(ds) ==
  IF ds = <<>>
  THEN 0
  ELSE 10 * DecimalValue(SubSeq(ds, 1, Len(ds) - 1)) + DigitValue(ds[Len(ds)])

\* an optional value: <<>> (none) or <<v>>
None == <<>>
Some(v) == <<v>>
NaN == None

\* parseInt(s, 10): leading white space skipped, an optional sign, then the
\* longest run of digits; NaN when there is no digit.  What follows the
\* digits is ignored.
ParseInt(s) ==
  LET t    == TrimStart(s)
      neg  == t # <<>> /\ Head(t) = "-"
      body == IF t # <<>> /\ Head(t) \in {"-", "+"} THEN Tail(t) ELSE t
      ds   == LeadingDigits(body)
  IN  IF ds = <<>>
      THEN NaN
      ELSE Some(IF neg THEN 0 - DecimalValue(ds) ELSE DecimalValue(ds))

(***************************************************************************)
(* Sentinel protocol (src/core/runner/sentinel.ts).                        *)
(***************************************************************************)
Null == None

\* parseSentinel(line): SentinelData, or Null
parseSentinel(line) ==
  IF ~StartsWith(line, SENTINEL_PREFIX)
  THEN Null
  ELSE LET parts == Split(line, UNIT_SEPARATOR)
       IN  IF Len(parts) # 4
           THEN Null
           ELSE IF parts[2] = <<>> \/ parts[3] = <<>> \/ parts[4] = <<>>
           THEN Null
           ELSE LET exitCode       == ParseInt(parts[3])
                    endTimestampMs == ParseInt(parts[4])
                IN  IF exitCode = NaN \/ endTimestampMs = NaN
                    THEN Null
                    ELSE Some([runId |-> parts[2], exitCode |-> exitCode[1],
                               endTimestampMs |-> endTimestampMs[1]])

NotFound(buffer) ==
  [found |-> FALSE, output |-> buffer, sentinel |-> Null, remaining |-> <<>>]

\* line 162 of sentinel.ts: the parsed line is accepted
SentinelAcceptedWrongId(parsed, expectedRunId) == parsed # Null
SentinelAccepted(parsed, expectedRunId) ==
  parsed # Null /\ parsed[1].runId = expectedRunId

extractSentinelTrimsOutput(buffer, expectedRunId) ==
  LET sentinelIndex == IndexOf(buffer, SENTINEL_PREFIX)
      afterSentinel == SubstringFrom(buffer, sentinelIndex)
      newlineIndex  == IndexOf(afterSentinel, <<NL>>)
      parsed        == parseSentinel(Trim(Substring(afterSentinel, 0, newlineIndex)))
  IN  IF sentinelIndex = -1 \/ newlineIndex = -1
      THEN NotFound(buffer)
      ELSE IF ~SentinelAccepted(parsed, expectedRunId)
      THEN NotFound(buffer)
      ELSE [found     |-> TRUE,
            output    |-> TrimEnd(Substring(buffer, 0, sentinelIndex)),
            sentinel  |-> parsed,
            remaining |-> SubstringFrom(afterSentinel, newlineIndex + 1)]
\* extractSentinel(buffer, expectedRunId)
extractSentinel(buffer, expectedRunId) ==
  LET sentinelIndex == IndexOf(buffer, SENTINEL_PREFIX)
  IN  IF sentinelIndex = -1
      THEN NotFound(buffer)
      ELSE
        LET output        == Substring(buffer, 0, sentinelIndex)
            afterSentinel == SubstringFrom(buffer, sentinelIndex)
            newlineIndex  == IndexOf(afterSentinel, <<NL>>)
        IN  IF newlineIndex = -1
            THEN NotFound(buffer)
            ELSE
              LET sentinelLine == Substring(afterSentinel, 0, newlineIndex)
                  remaining    == SubstringFrom(afterSentinel, newlineIndex + 1)
                  parsed       == parseSentinel(Trim(sentinelLine))
              IN  IF ~SentinelAccepted(parsed, expectedRunId)
                  THEN NotFound(buffer)
                  ELSE [found     |-> TRUE,
                        output    |-> IF EndsWith(output, <<NL>>)
                                      THEN Substring(output, 0, Len(output) - 1)
                                      ELSE output,
                        sentinel  |-> parsed,
                        remaining |-> remaining]

\* the line generateShellWrapper's printf prints (sentinel.ts:66)
SentinelLine(runId, ec, ts) ==
  SENTINEL_PREFIX \o <<UNIT_SEPARATOR>> \o runId \o <<UNIT_SEPARATOR>> \o ec
    \o <<UNIT_SEPARATOR>> \o ts \o <<NL>>

(***************************************************************************)
(* State.                                                                  *)
(***************************************************************************)
VARIABLES
  rt,          \* runTests: its position and locals (index.ts:62-151)
  ex,          \* runFile and executeNodes: position and locals (index.ts:175-360)
  sess,        \* the ShellSession objects, one slot per file (shell.ts:72-91)
  shell,       \* the shell subprocess of each session
  hist,        \* what has happened per file, for the properties
  events,      \* the file-level calls made on the reporter, in order
  exitStatus,  \* the status the process exited with, or -1 (cli.ts:39,42)
  sBuffer,     \* sentinel specification: the output buffer
  sExpected,   \* sentinel specification: the runId waited for
  sResult,     \* sentinel specification: what the last poll returned
  sPolled,     \* sentinel specification: the buffer the last poll inspected
  sAppends,    \* sentinel specification: chunks appended so far
  cwdq,        \* getCwd specification: the query, its reply and the buffer
  pf,          \* parser specification: parseFile's position and locals
  ev           \* evaluation specification: one call of a pure function

execVars == <<rt, ex, sess, shell, hist, events, exitStatus>>
sentVars == <<sBuffer, sExpected, sResult, sPolled, sAppends, cwdq, pf, ev>>
pollVars == <<sBuffer, sExpected, sResult, sPolled, sAppends, pf, ev>>
vars == <<rt, ex, sess, shell, hist, events, exitStatus,
          sBuffer, sExpected, sResult, sPolled, sAppends, cwdq, pf, ev>>

\* no file is being parsed and no function is being evaluated
PureIdle == pf = [pc |-> "idle"] /\ ev = [pc |-> "idle"]

(***************************************************************************)
(* The sentinel specification: a reader appending chunks to the buffer and *)
(* waitForSentinel polling it.                                             *)
(***************************************************************************)
RunIdA == <<"a">>
RunIdB == <<"b">>
SentRunIds == {RunIdA, RunIdB}

\* what the shell's stdout may deliver in one read
Chunks ==
  { <<"x">>, <<NL>>, <<" ">>,
    SENTINEL_PREFIX,
    \* a line of output that is the prefix alone
    SENTINEL_PREFIX \o <<NL>>,
    SentinelLine(RunIdA, <<"0">>, <<"7">>),
    SentinelLine(RunIdA, <<"1">>, <<"7">>),
    SentinelLine(RunIdB, <<"0">>, <<"7">>),
    \* a sentinel whose newline has not arrived yet
    SENTINEL_PREFIX \o <<UNIT_SEPARATOR>> \o RunIdA
      \o <<UNIT_SEPARATOR, "0", UNIT_SEPARATOR, "7">>,
    \* three fields only
    SENTINEL_PREFIX \o <<UNIT_SEPARATOR>> \o RunIdA
      \o <<UNIT_SEPARATOR, "0", NL>>,
    \* an exit code that is no number
    SentinelLine(RunIdA, <<"x">>, <<"7">>),
    \* an exit code followed by another character
    SentinelLine(RunIdA, <<"2", "x">>, <<"7">>),
    \* a line of output and the sentinel after it in one read
    <<"x", NL>> \o SentinelLine(RunIdA, <<"0">>, <<"7">>) }

NoPoll == [polled |-> FALSE, found |-> FALSE, output |-> <<>>,
           sentinel |-> Null, remaining |-> <<>>]

SentInit ==
  /\ cwdq = [pc |-> "idle"]
  /\ PureIdle
  /\ sBuffer = <<>>
  /\ sExpected \in SentRunIds
  /\ sResult = NoPoll
  /\ sPolled = <<>>
  /\ sAppends = 0

\* shell.ts:148: this.outputBuffer += decoder.decode(value)
SentReaderAppend ==
  /\ UNCHANGED execVars
  /\ sAppends < MaxAppends
  /\ \E chunk \in Chunks : sBuffer' = sBuffer \o chunk
  /\ sAppends' = sAppends + 1
  /\ UNCHANGED <<sExpected, sResult, sPolled, cwdq, pf, ev>>

SentPollStale ==
  LET result == extractSentinel(sPolled, sExpected)
  IN  /\ UNCHANGED execVars
      /\ sPolled' = sBuffer
      /\ sResult' = [polled |-> TRUE, found |-> result.found,
                     output |-> result.output, sentinel |-> result.sentinel,
                     remaining |-> result.remaining]
      /\ sBuffer' = IF result.found THEN result.remaining ELSE sBuffer
      /\ UNCHANGED <<sExpected, sAppends, cwdq, pf, ev>>
SentPollClears ==
  LET result == extractSentinel(sBuffer, sExpected)
  IN  /\ UNCHANGED execVars
      /\ sPolled' = sBuffer
      /\ sResult' = [polled |-> TRUE, found |-> result.found,
                     output |-> result.output, sentinel |-> result.sentinel,
                     remaining |-> result.remaining]
      /\ sBuffer' = result.remaining
      /\ UNCHANGED <<sExpected, sAppends, cwdq, pf, ev>>
\* shell.ts:319-328: one iteration of waitForSentinel's loop
SentPoll ==
  LET result == extractSentinel(sBuffer, sExpected)
  IN  /\ UNCHANGED execVars
      /\ sPolled' = sBuffer
      /\ sResult' = [polled |-> TRUE, found |-> result.found,
                     output |-> result.output, sentinel |-> result.sentinel,
                     remaining |-> result.remaining]
      /\ sBuffer' = IF result.found THEN result.remaining ELSE sBuffer
      /\ UNCHANGED <<sExpected, sAppends, cwdq, pf, ev>>

(***************************************************************************)
(* The executor's data.                                                    *)
(***************************************************************************)
Files == 1..NumFiles

\* String(n) for an integer
RECURSIVE NatToString(_)
NatToString(n) ==
  IF n < 10
  THEN <<DigitChars[n + 1]>>
  ELSE NatToString(n \div 10) \o <<DigitChars[(n % 10) + 1]>>
NumToString(n) == IF n < 0 THEN <<"-">> \o NatToString(0 - n) ELSE NatToString(n)

\* an absent optional string
Undefined == <<>>

\* basename(filename).replace(/\.hone$/, "") of the file with index f
FileBase(f) == <<"f">> \o NatToString(f)

\* the names tests and RUNs carry in the files of the model
TestNames == {<<"t">>}
RunNames == {<<"a">>}
\* the commands of the RUN statements: what the shell does with each is in
\* ShellExec
Commands == {"false", "cd sub", "pwd", "sleep"}
NamedCommands == {"false"}

NoExpression == [type |-> "none", target |-> Undefined, operator |-> "", value |-> 0]

\* ast.ts: the node types executeNodes switches on
TestNode(name) ==
  [type |-> "test", name |-> name, command |-> "", key |-> "", value |-> "",
   expression |-> NoExpression]
EnvNode(key, value) ==
  [type |-> "env", name |-> Undefined, command |-> "", key |-> key,
   value |-> value, expression |-> NoExpression]
RunNode(name, command) ==
  [type |-> "run", name |-> name, command |-> command, key |-> "",
   value |-> "", expression |-> NoExpression]
AssertNode(expression) ==
  [type |-> "assert", name |-> Undefined, command |-> "", key |-> "",
   value |-> "", expression |-> expression]
CommentNode ==
  [type |-> "comment", name |-> Undefined, command |-> "", key |-> "",
   value |-> "", expression |-> NoExpression]

ExitCodeExpression(target, operator, value) ==
  [type |-> "exit_code", target |-> target, operator |-> operator, value |-> value]

\* the nodes a parsed file may hold
AllNodes ==
  {CommentNode, EnvNode("K", "v")}
    \cup {TestNode(n) : n \in TestNames}
    \cup {RunNode(Undefined, c) : c \in Commands}
    \cup {RunNode(n, c) : n \in RunNames, c \in NamedCommands}
    \cup {AssertNode(ExitCodeExpression(Undefined, o, 0)) : o \in {"==", "!="}}
    \cup {AssertNode(ExitCodeExpression(n, "!=", 0)) : n \in RunNames}

\* what reading and parsing one file may give: the file cannot be read, or
\* parseFile finds `errors' syntax errors in it
FileInputs ==
  {[readable |-> FALSE, errors |-> 0]}
    \cup {[readable |-> TRUE, errors |-> e] : e \in 0..MaxParseErrors}

\* parser/index.ts:117-133: success if and only if no error was collected
ParseSucceedsAlways(errors) == TRUE
ParseSucceeds(errors) == errors = 0

\* reporter.ts:13-22; a failure that is not an assertion's has no
\* assertion, expected and actual
Failure(filename, line, testName, runCommand, assertion, error) ==
  [filename |-> filename, line |-> line, testName |-> testName,
   runCommand |-> runCommand, assertion |-> assertion,
   expected |-> Undefined, actual |-> Undefined, error |-> error]

(***************************************************************************)
(* Initial state.                                                          *)
(***************************************************************************)
NoWait == [kind |-> "none", marker |-> <<>>, next |-> ""]

ExInit ==
  [pc |-> "idle", file |-> 0, nodeCount |-> 0, runNames |-> {},
   node |-> CommentNode,
   currentTestName |-> Undefined, lastRunResult |-> None,
   runResults |-> [n \in RunNames |-> None], assertionsPassed |-> 0,
   pendingEnvVars |-> <<>>, runId |-> <<>>, wait |-> NoWait,
   thrown |-> <<>>, result |-> None]

\* shell.ts:73-81: the fields of a ShellSession; `exists' is whether the
\* object has been constructed
SessInit ==
  [exists |-> FALSE, process |-> "null", outputBuffer |-> <<>>,
   reading |-> FALSE, runIndex |-> 0, currentTestName |-> Undefined,
   testEnvVars |-> {}, markers |-> 0]

\* the subprocess: whether it runs, the lines written to its stdin and not
\* yet executed, its working directory, its exported test variables, and
\* whether it is busy with a command that does not end; pragmaEnv holds the
\* variables that still have the value the shell was spawned with
ShellInit ==
  [alive |-> FALSE, argv |-> <<>>, stdin |-> <<>>, cwd |-> <<"/">>, env |-> {},
   busy |-> FALSE, pragmaEnv |-> {}]

\* shell.ts:431-435: the variables createShellConfig takes from the file's
\* `#! env:' pragmas into config.env; the first file of the run has the
\* pragma `#! env: K=p', the others have none
PragmaEnv(f) == IF f = 1 THEN {"K"} ELSE {}

\* shell.ts:46-50: the flags each known shell is started with
SHELL_FLAGS ==
  [bash |-> <<"--norc", "--noprofile">>, zsh |-> <<"--no-rcs">>, sh |-> <<>>]

\* path.basename: a path is the sequence of its components
Basename(shellPath) == shellPath[Len(shellPath)]

\* shell.ts:55-58: SHELL_FLAGS[shellName] ?? []
getShellFlags(shellPath) ==
  IF Basename(shellPath) \in DOMAIN SHELL_FLAGS
  THEN SHELL_FLAGS[Basename(shellPath)] ELSE <<>>

\* shell.ts:63-66
isShellSupported(shellPath) == Basename(shellPath) \in DOMAIN SHELL_FLAGS

\* index.ts:186-191, shell.ts:411-418: the shell of the run, the --shell
\* option or $SHELL or /bin/bash
DefaultShell == <<"bin", "bash">>
ShellPaths == {DefaultShell, <<"bin", "dash">>}

HistInit ==
  [input |-> [f \in Files |-> [readable |-> TRUE, errors |-> 0]],
   created |-> [f \in Files |-> 0],
   started |-> [f \in Files |-> 0],
   stopped |-> [f \in Files |-> 0],
   executed |-> [f \in Files |-> 0],
   returned |-> [f \in Files |-> 0],
   runsWritten |-> [f \in Files |-> 0],
   assertsEvaluated |-> [f \in Files |-> 0],
   assertsPassed |-> [f \in Files |-> 0],
   failed |-> [f \in Files |-> FALSE],
   cds |-> [f \in Files |-> 0],
   tests |-> [f \in Files |-> 0],
   cdTest |-> [f \in Files |-> 0],
   ready |-> [f \in Files |-> FALSE],
   declared |-> [f \in Files |-> {}],
   lastRun |-> [f \in Files |-> None],
   named |-> [f \in Files |-> [name \in RunNames |-> None]]]

ExecInitWith(shellPath) ==
  /\ rt = [pc |-> "resolveFiles", files |-> <<>>, parseResults |-> <<>>,
           i |-> 1, parseFailures |-> <<>>, validFiles |-> <<>>, r |-> 1,
           results |-> <<>>, testResults |-> None, shell |-> shellPath]
  /\ ex = ExInit
  /\ sess = [f \in Files |-> SessInit]
  /\ shell = [f \in Files |-> ShellInit]
  /\ hist = HistInit
  /\ events = <<>>
  /\ exitStatus = -1

ExecInit == ExecInitWith(DefaultShell)

(***************************************************************************)
(* runTests (src/core/runner/index.ts:62-151).                             *)
(***************************************************************************)
Report(name, f) == events' = Append(events, <<name, f>>)

ZeroResults ==
  [totalFiles |-> 0, passedFiles |-> 0, failedFiles |-> 0,
   totalAssertions |-> 0, passedAssertions |-> 0, failedAssertions |-> 0,
   failures |-> <<>>]

\* index.ts:70-83: the pattern resolves to n files; none is a warning and
\* an empty result
ResolveFiles ==
  /\ UNCHANGED sentVars
  /\ rt.pc = "resolveFiles"
  /\ \E n \in 0..NumFiles :
       IF n = 0
       THEN /\ rt' = [rt EXCEPT !.pc = "returned",
                                !.testResults = Some(ZeroResults)]
            /\ Report("onWarning", 0)
       ELSE /\ rt' = [rt EXCEPT !.pc = "parse", !.files = [k \in 1..n |-> k]]
            /\ UNCHANGED events
  /\ UNCHANGED <<ex, sess, shell, hist, exitStatus>>

\* index.ts:86-91: every file is read and parsed; Promise.all rejects, and
\* runTests with it, when a readFile rejects
ParseAll ==
  /\ UNCHANGED sentVars
  /\ rt.pc = "parse"
  /\ \E input \in [1..Len(rt.files) -> FileInputs] :
       /\ hist' = [hist EXCEPT !.input =
                     [f \in Files |-> IF f \in DOMAIN input THEN input[f] ELSE @[f]]]
       /\ IF \E k \in DOMAIN input : ~input[k].readable
          THEN rt' = [rt EXCEPT !.pc = "threw"]
          ELSE rt' = [rt EXCEPT
                 !.pc = "collect",
                 !.parseResults =
                   [k \in 1..Len(rt.files) |->
                      [file |-> rt.files[k],
                       success |-> ParseSucceeds(input[k].errors),
                       errors |-> input[k].errors]]]
  /\ UNCHANGED <<ex, sess, shell, events, exitStatus>>

\* the failures pushed for one file's parse errors (index.ts:100-106)
ParseFailuresOf(file, errors) ==
  [k \in 1..errors |->
     Failure(file, k, Undefined, Undefined, Undefined, <<"parse error">>)]

\* index.ts:97-116: one iteration of the loop over parseResults
CollectParseResult ==
  /\ UNCHANGED sentVars
  /\ rt.pc = "collect"
  /\ rt.i <= Len(rt.parseResults)
  /\ LET pr == rt.parseResults[rt.i]
     IN  IF ~pr.success
         THEN /\ Report("onParseErrors", pr.file)
              /\ rt' = [rt EXCEPT
                     !.parseFailures = @ \o ParseFailuresOf(pr.file, pr.errors),
                     !.i = @ + 1]
         ELSE /\ rt' = [rt EXCEPT !.validFiles = Append(@, pr.file),
                                  !.i = @ + 1]
              /\ UNCHANGED events
  /\ UNCHANGED <<ex, sess, shell, hist, exitStatus>>

\* index.ts:119: the loop over parseResults is over
CollectDone ==
  /\ UNCHANGED sentVars
  /\ rt.pc = "collect"
  /\ rt.i > Len(rt.parseResults)
  /\ rt' = [rt EXCEPT !.pc = "runFiles"]
  /\ UNCHANGED <<ex, sess, shell, hist, events, exitStatus>>

RECURSIVE SumOf(_, _)
SumOf(seq, field) ==
  IF seq = <<>> THEN 0 ELSE seq[1][field] + SumOf(Tail(seq), field)

PassedCount(results) == Len(SelectSeq(results, LAMBDA r : r.passed))

FailuresOf(results) ==
  LET failing == SelectSeq(results, LAMBDA r : r.failure # None)
  IN  [k \in 1..Len(failing) |-> failing[k].failure[1]]

FailedFilesOfResults(files, results) == Len(results) - PassedCount(results)
\* index.ts:141
FailedFiles(files, results) == Len(files) - PassedCount(results)

\* index.ts:127-146
CompileResults(files, parseFailures, results) ==
  [totalFiles |-> Len(files),
   passedFiles |-> PassedCount(results),
   failedFiles |-> FailedFiles(files, results),
   totalAssertions |-> SumOf(results, "assertionsPassed")
                         + SumOf(results, "assertionsFailed"),
   passedAssertions |-> SumOf(results, "assertionsPassed"),
   failedAssertions |-> SumOf(results, "assertionsFailed"),
   failures |-> parseFailures \o FailuresOf(results)]

\* index.ts:126-150: every valid file has run
RunTestsReturn ==
  /\ UNCHANGED sentVars
  /\ rt.pc = "runFiles"
  /\ ex.pc = "idle"
  /\ rt.r > Len(rt.validFiles)
  /\ rt' = [rt EXCEPT
         !.pc = "returned",
         !.testResults =
           Some(CompileResults(rt.files, rt.parseFailures, rt.results))]
  /\ Report("onSummary", 0)
  /\ UNCHANGED <<ex, sess, shell, hist, exitStatus>>

\* cli.ts:38-43
ExitCodeAlwaysZero(failedFiles) == 0
ExitCodeFor(failedFiles) == IF failedFiles > 0 THEN 1 ELSE 0

\* cli.ts:30-44: the run command's action
CliExit ==
  /\ UNCHANGED sentVars
  /\ exitStatus = -1
  /\ \/ /\ rt.pc = "returned"
        /\ exitStatus' = ExitCodeFor(rt.testResults[1].failedFiles)
     \/ /\ rt.pc = "threw"
        /\ exitStatus' = 1
  /\ UNCHANGED <<rt, ex, sess, shell, hist, events>>

(***************************************************************************)
(* ShellSession (src/core/runner/shell.ts).                                *)
(***************************************************************************)
\* a line written to the shell's stdin
ShellLine(op, text, command, keys) ==
  [op |-> op, text |-> text, command |-> command, keys |-> keys]

\* shell.ts:362-368: writeToShell, for a session whose process exists
WriteToShell(sh, line) == [sh EXCEPT !.stdin = Append(@, line)]

\* shell.ts:204, 255, 342: a marker made from Date.now(); the k-th marker of
\* a session
Marker(tag, k) == <<tag>> \o NumToString(k) \o <<"__">>

\* shell.ts:182-184
ClearBuffer(se) == [se EXCEPT !.outputBuffer = <<>>]

\* sentinel.ts:35: testName.replace(/\s+/g, "-").toLowerCase(); the test
\* names of the model are lower case
RECURSIVE Slug(_)
Slug(name) ==
  IF name = <<>>
  THEN <<>>
  ELSE IF Head(name) \in WhiteSpace
       THEN <<"-">> \o Slug(TrimStart(name))
       ELSE <<Head(name)>> \o Slug(Tail(name))

\* sentinel.ts:25-45
generateRunId(filebase, testName, runName, runIndex) ==
  filebase
    \o (IF testName # Undefined THEN <<"-">> \o Slug(testName) ELSE <<>>)
    \o <<"-">>
    \o (IF runName # Undefined THEN runName ELSE NumToString(runIndex))

\* utils/ansi.ts:10-12: an escape sequence is one symbol of the model
AnsiCode == "ESC[0m"
stripAnsiCodes(input) == SelectSeq(input, LAMBDA c : c # AnsiCode)

\* shell.ts:299-307
RunResult(runId, result) ==
  [runId |-> runId, stdout |-> stripAnsiCodes(result.output),
   stdoutRaw |-> result.output, exitCode |-> result.sentinel[1].exitCode]

(***************************************************************************)
(* runFile (src/core/runner/index.ts:175-248).                             *)
(***************************************************************************)
CurrentFile == rt.validFiles[rt.r]

Bump(field, f) == hist' = [hist EXCEPT ![field][f] = @ + 1]

\* index.ts:121-122, 181-194: runFile is called for the next valid file;
\* it reports onFileStart and constructs the session
RunFileBegin ==
  /\ UNCHANGED sentVars
  /\ rt.pc = "runFiles"
  /\ ex.pc = "idle"
  /\ rt.r <= Len(rt.validFiles)
  /\ ex' = [ExInit EXCEPT !.pc = "start", !.file = CurrentFile]
  /\ sess' = [sess EXCEPT ![CurrentFile] = [SessInit EXCEPT !.exists = TRUE]]
  /\ hist' = [hist EXCEPT !.created[CurrentFile] = @ + 1,
                          !.executed[CurrentFile] = @ + 1]
  /\ Report("onFileStart", CurrentFile)
  /\ UNCHANGED <<rt, shell, exitStatus>>

\* shell.ts:101-128, 202-205: start() makes the artifact directory, spawns
\* the shell, starts the reader and writes the readiness echo; mkdir or
\* spawn may throw
SessionStart ==
  /\ UNCHANGED sentVars
  /\ ex.pc = "start"
  /\ LET f == ex.file
         marker == Marker("__HONE_READY_", sess[f].markers)
     IN  \E outcome \in {"spawned", "mkdir throws", "spawn throws"} :
           IF outcome = "spawned"
           THEN /\ sess' = [sess EXCEPT ![f].process = "spawned",
                                        ![f].reading = TRUE,
                                        ![f].markers = @ + 1]
                /\ shell' = [shell EXCEPT ![f] =
                      WriteToShell([ShellInit EXCEPT
                                      !.alive = TRUE,
                                      !.argv = <<rt.shell>>
                                                 \o getShellFlags(rt.shell),
                                      !.pragmaEnv = PragmaEnv(f)],
                                   ShellLine("echo", marker, "", {}))]
                /\ Bump("started", f)
                /\ ex' = [ex EXCEPT !.pc = "waitForReady",
                            !.wait = [kind |-> "ready", marker |-> marker,
                                      next |-> "loop"]]
           ELSE /\ ex' = [ex EXCEPT !.pc = "catch", !.thrown = <<outcome>>]
                /\ UNCHANGED <<sess, shell, hist>>
  /\ UNCHANGED <<rt, events, exitStatus>>

\* shell.ts:166-177: waitForString's loop checks the buffer every 10 ms
\* until the timeout has passed.  The timeout passes only after a check
\* that did not find the marker; what arrives during the last sleep is in
\* the buffer afterwards all the same.
MarkerSeen(f, marker) == Includes(sess[f].outputBuffer, marker)

\* shell.ts:207-216: the readiness marker is in the buffer
ReadyFound ==
  /\ UNCHANGED sentVars
  /\ ex.pc = "waitForReady"
  /\ MarkerSeen(ex.file, ex.wait.marker)
  /\ sess' = [sess EXCEPT ![ex.file] = ClearBuffer(@)]
  /\ ex' = [ex EXCEPT !.pc = "loop", !.wait = NoWait]
  /\ hist' = [hist EXCEPT !.ready[ex.file] = TRUE]
  /\ UNCHANGED <<rt, shell, events, exitStatus>>

\* shell.ts:209-213: the error waitForReady throws
ReadyError(shellPath) ==
  <<"Shell failed to start within 5000ms. Shell: ", shellPath>>

\* shell.ts:207-213: waitForString returned false
ReadyExpiredGoesOn(e) == [e EXCEPT !.pc = "loop", !.wait = NoWait]
ReadyExpired(e) ==
  [e EXCEPT !.pc = "catch", !.wait = NoWait, !.thrown = ReadyError(rt.shell)]

\* shell.ts:209-213: 5000 ms have passed: start() throws
ReadyExpire ==
  /\ UNCHANGED sentVars
  /\ ex.pc = "waitForReady"
  /\ ~MarkerSeen(ex.file, ex.wait.marker)
  /\ ex' = ReadyExpired(ex)
  /\ UNCHANGED <<rt, sess, shell, hist, events, exitStatus>>

\* index.ts:210-229: what runFile returns after executeNodes
FileRunResult(filename, result) ==
  [filename |-> filename, passed |-> result.failure = None,
   assertionsPassed |-> result.assertionsPassed,
   assertionsFailed |-> IF result.failure = None THEN 0 ELSE 1,
   failure |-> result.failure]

\* index.ts:200-229: executeNodes has returned and its locals are gone;
\* runFile's result waits for the finally block
Executed(e, result) ==
  [ExInit EXCEPT !.pc = "finally", !.file = e.file,
                 !.result = Some(FileRunResult(e.file, result))]

\* index.ts:230-244: start() or executeNodes threw
RunFileCatch ==
  /\ UNCHANGED sentVars
  /\ ex.pc = "catch"
  /\ LET failure == Failure(ex.file, 0, Undefined, Undefined, Undefined, ex.thrown)
     IN  /\ Report("onFailure", ex.file)
         /\ ex' = [ex EXCEPT !.pc = "finally", !.thrown = <<>>,
                     !.result = Some([filename |-> ex.file, passed |-> FALSE,
                                      assertionsPassed |-> 0,
                                      assertionsFailed |-> 1,
                                      failure |-> Some(failure)])]
  /\ hist' = [hist EXCEPT !.failed[ex.file] = TRUE]
  /\ UNCHANGED <<rt, sess, shell, exitStatus>>

\* runFile does not use the session after stop(): the model keeps of it
\* only whether its process and its reader are still there
Forgotten(se) ==
  [SessInit EXCEPT !.exists = TRUE, !.process = se.process, !.reading = se.reading]

\* shell.ts:373-398: stop(): the reader is told to end; if there is a
\* process, exit is written, the process is killed and forgotten.  What
\* the killed process had not read of its stdin goes with it, and the
\* counts hist keeps while the file executes start again.
StopSkipped(f) == UNCHANGED <<sess, shell, hist>>
StopWritesExitAlways(f) ==
  /\ sess' = [sess EXCEPT ![f] =
                 Forgotten([@ EXCEPT !.reading = FALSE, !.process = "null"])]
  /\ shell' = [shell EXCEPT ![f] =
                 WriteToShell(ShellInit, ShellLine("exit", <<>>, "", {}))]
  /\ Bump("stopped", f)
StopLeavesProcess(f) ==
  /\ sess' = [sess EXCEPT ![f].reading = FALSE]
  /\ UNCHANGED shell
  /\ Bump("stopped", f)
Stop(f) ==
  /\ sess' = [sess EXCEPT ![f] =
                 Forgotten([@ EXCEPT !.reading = FALSE, !.process = "null"])]
  /\ shell' = IF sess[f].process # "null"
              THEN [shell EXCEPT ![f] = ShellInit]
              ELSE shell
  /\ hist' = [hist EXCEPT !.stopped[f] = @ + 1,
                          !.runsWritten[f] = 0,
                          !.assertsEvaluated[f] = 0,
                          !.assertsPassed[f] = 0,
                          !.cds[f] = 0,
                          !.tests[f] = 0,
                          !.cdTest[f] = 0,
                          !.ready[f] = FALSE,
                          !.declared[f] = {},
                          !.lastRun[f] = None,
                          !.named[f] = [name \in RunNames |-> None]]

\* shell.ts:400-405: Symbol.dispose, or any caller, stops a session that
\* was stopped before
Dispose ==
  /\ UNCHANGED sentVars
  /\ \E f \in Files :
       /\ sess[f].exists
       /\ hist.stopped[f] >= 1
       /\ hist.stopped[f] < MaxStops
       /\ Stop(f)
  /\ UNCHANGED <<rt, ex, events, exitStatus>>

\* index.ts:245-247: finally { await session.stop() }
RunFileFinally ==
  /\ UNCHANGED sentVars
  /\ ex.pc = "finally"
  /\ Stop(ex.file)
  /\ ex' = [ex EXCEPT !.pc = "return"]
  /\ UNCHANGED <<rt, events, exitStatus>>

\* index.ts:122-123: runFile returns and its result is pushed
RunFileReturn ==
  /\ UNCHANGED sentVars
  /\ ex.pc = "return"
  /\ rt' = [rt EXCEPT !.results = Append(@, ex.result[1]), !.r = @ + 1]
  /\ Bump("returned", ex.file)
  /\ ex' = ExInit
  /\ UNCHANGED <<sess, shell, events, exitStatus>>

(***************************************************************************)
(* Assertions (src/core/assertions, index.ts:365-424).                     *)
(***************************************************************************)
AssertionResult(passed, expected, actual, error) ==
  [passed |-> passed, expected |-> expected, actual |-> actual, error |-> error]

\* assertions/exitcode.ts:11-23
evaluateExitCodePredicate(exitCode, predicate) ==
  LET isEqual == exitCode = predicate.value
      passed  == IF predicate.operator = "==" THEN isEqual ELSE ~isEqual
  IN  AssertionResult(passed,
        <<"exit_code ", predicate.operator, " ">> \o NumToString(predicate.value),
        NumToString(exitCode), Undefined)

\* index.ts:365-424, for the assertions on a RUN's result
evaluateAssertionIgnoresTarget(node, lastRunResult, runResults) ==
  IF lastRunResult = None
  THEN AssertionResult(FALSE, <<"a previous RUN command">>,
                       <<"no RUN command executed">>,
                       <<"ASSERT without a preceding RUN">>)
  ELSE evaluateExitCodePredicate(lastRunResult[1].exitCode, node.expression)
evaluateAssertion(node, lastRunResult, runResults) ==
  LET expr == node.expression
      targetResult == IF expr.target # Undefined
                      THEN runResults[expr.target]
                      ELSE lastRunResult
  IN  IF expr.target # Undefined /\ targetResult = None
      THEN AssertionResult(FALSE,
                           <<"RUN named ">> \o expr.target \o <<" to exist">>,
                           <<"RUN not found">>,
                           <<"No RUN named ">> \o expr.target \o <<" found">>)
      ELSE IF targetResult = None
      THEN AssertionResult(FALSE, <<"a previous RUN command">>,
                           <<"no RUN command executed">>,
                           <<"ASSERT without a preceding RUN">>)
      ELSE evaluateExitCodePredicate(targetResult[1].exitCode, expr)

(***************************************************************************)
(* executeNodes (src/core/runner/index.ts:261-360).  The nodes of the file *)
(* are drawn one by one as the loop reaches them, among those parseFile    *)
(* lets follow the ones before (a RUN name is used once).                  *)
(***************************************************************************)
NodesOfType(type) ==
  {n \in AllNodes :
     /\ n.type = type
     /\ (n.type = "run" /\ n.name # Undefined) => n.name \notin ex.runNames}

NodeBound ==
  IF Len(rt.files) = 1
  THEN MaxNodesAlone
  ELSE Max(1, MaxNodes + 2 - Len(rt.files))
AtNode == ex.pc = "loop" /\ ex.nodeCount < NodeBound

Advance(e, node) ==
  [e EXCEPT !.nodeCount = @ + 1, !.node = node,
            !.runNames = IF node.type = "run" /\ node.name # Undefined
                         THEN @ \cup {node.name} ELSE @]

\* the line of the node being executed
NodeLine == ex.nodeCount

\* index.ts:276-279
ExecComment ==
  /\ UNCHANGED sentVars
  /\ AtNode
  /\ \E node \in NodesOfType("comment") : ex' = Advance(ex, node)
  /\ UNCHANGED <<rt, sess, shell, hist, events, exitStatus>>

\* shell.ts:254-256: flush() makes its marker and writes the echo
FlushWait(marker, next) ==
  [kind |-> "flush", marker |-> marker, next |-> next]

\* index.ts:281-288 with shell.ts:242-249: a TEST node
ExecTest ==
  /\ UNCHANGED sentVars
  /\ AtNode
  /\ \E node \in NodesOfType("test") :
       LET f == ex.file
           marker == Marker("__HONE_FLUSH_", sess[f].markers)
       IN  IF sess[f].testEnvVars # {}
           THEN /\ shell' = [shell EXCEPT ![f] =
                     WriteToShell(
                       WriteToShell(@, ShellLine("unset", <<>>, "", sess[f].testEnvVars)),
                       ShellLine("echo", marker, "", {}))]
                /\ sess' = [sess EXCEPT ![f].testEnvVars = {},
                                        ![f].markers = @ + 1]
                /\ ex' = [Advance(ex, node) EXCEPT
                            !.pc = "flush", !.wait = FlushWait(marker, "setCurrentTest")]
           ELSE /\ ex' = [Advance(ex, node) EXCEPT !.currentTestName = node.name]
                /\ sess' = [sess EXCEPT ![f].currentTestName = node.name]
                /\ UNCHANGED shell
  /\ hist' = [hist EXCEPT !.tests[ex.file] = @ + 1,
                          !.declared[ex.file] = {}]
  /\ UNCHANGED <<rt, events, exitStatus>>

\* index.ts:285-286, after clearTestEnvVars has flushed
SetCurrentTest ==
  /\ UNCHANGED sentVars
  /\ ex.pc = "setCurrentTest"
  /\ ex' = [ex EXCEPT !.pc = "loop", !.currentTestName = ex.node.name]
  /\ sess' = [sess EXCEPT ![ex.file].currentTestName = ex.node.name]
  /\ UNCHANGED <<rt, shell, hist, events, exitStatus>>

\* index.ts:290-293
ExecEnv ==
  /\ UNCHANGED sentVars
  /\ AtNode
  /\ \E node \in NodesOfType("env") :
       /\ ex' = [Advance(ex, node) EXCEPT
                   !.pendingEnvVars = Append(@, [key |-> node.key, value |-> node.value])]
       /\ hist' = [hist EXCEPT !.declared[ex.file] = @ \cup {node.key}]
  /\ UNCHANGED <<rt, sess, shell, events, exitStatus>>

\* shell.ts:258-259: the flush marker is in the buffer
FlushFound ==
  /\ UNCHANGED sentVars
  /\ ex.pc = "flush"
  /\ MarkerSeen(ex.file, ex.wait.marker)
  /\ sess' = [sess EXCEPT ![ex.file] = ClearBuffer(@)]
  /\ ex' = [ex EXCEPT !.pc = ex.wait.next, !.wait = NoWait]
  /\ UNCHANGED <<rt, shell, hist, events, exitStatus>>

\* shell.ts:258-259: 2000 ms have passed; flush() goes on all the same
FlushExpire ==
  /\ UNCHANGED sentVars
  /\ ex.pc = "flush"
  /\ ~MarkerSeen(ex.file, ex.wait.marker)
  /\ sess' = [sess EXCEPT ![ex.file] = ClearBuffer(@)]
  /\ ex' = [ex EXCEPT !.pc = ex.wait.next, !.wait = NoWait]
  /\ UNCHANGED <<rt, shell, hist, events, exitStatus>>

\* shell.ts:229-237: setEnvVars writes one export per variable, records the
\* keys, and flushes
RECURSIVE WriteExports(_, _)
WriteExports(sh, pending) ==
  IF pending = <<>>
  THEN sh
  ELSE WriteExports(
         WriteToShell(sh, ShellLine("export", <<>>, "", {Head(pending).key})),
         Tail(pending))

\* what hist keeps of a RUN whose wrapper was written: its runId, its
\* command and the number of TEST statements before it
Written(runId, command, block) ==
  [runId |-> runId, command |-> command, block |-> block]

\* shell.ts:265-285: run() counts the RUN, makes its runId and writes the
\* wrapper
SendRun(e, node) ==
  LET f == e.file
      runIndex == sess[f].runIndex + 1
      runId == generateRunId(FileBase(f), sess[f].currentTestName, node.name, runIndex)
  IN  /\ sess' = [sess EXCEPT ![f].runIndex = runIndex]
      /\ shell' = [shell EXCEPT ![f] =
            WriteToShell(@, ShellLine("wrapper", runId, node.command, {}))]
      /\ ex' = [e EXCEPT !.pc = "waitForSentinel", !.runId = runId,
                         !.pendingEnvVars = <<>>,
                         !.wait = [kind |-> "sentinel", marker |-> runId,
                                   next |-> "loop"]]
      /\ hist' = [hist EXCEPT
            !.runsWritten[f] = @ + 1,
            !.cds[f] = IF node.command = "cd sub" THEN @ + 1 ELSE @,
            !.cdTest[f] = IF node.command = "cd sub" THEN hist.tests[f] ELSE @,
            !.lastRun[f] = Some(Written(runId, node.command, hist.tests[f])),
            !.named[f] = IF node.name # Undefined
                         THEN [@ EXCEPT ![node.name] =
                                 Some(Written(runId, node.command, hist.tests[f]))]
                         ELSE @]

\* index.ts:295-303: a RUN node; pending ENV variables are exported first
ExecRun ==
  /\ UNCHANGED sentVars
  /\ AtNode
  /\ \E node \in NodesOfType("run") :
       LET f == ex.file
           marker == Marker("__HONE_FLUSH_", sess[f].markers)
       IN  IF ex.pendingEnvVars # <<>>
           THEN /\ shell' = [shell EXCEPT ![f] =
                     WriteToShell(WriteExports(@, ex.pendingEnvVars),
                                  ShellLine("echo", marker, "", {}))]
                /\ sess' = [sess EXCEPT
                     ![f].testEnvVars =
                        @ \cup {ex.pendingEnvVars[k].key : k \in DOMAIN ex.pendingEnvVars},
                     ![f].markers = @ + 1]
                /\ ex' = [Advance(ex, node) EXCEPT
                            !.pc = "flush", !.wait = FlushWait(marker, "run")]
                /\ UNCHANGED hist
           ELSE SendRun(Advance(ex, node), node)
  /\ UNCHANGED <<rt, events, exitStatus>>

\* index.ts:299-303, after setEnvVars has flushed
RunAfterEnv ==
  /\ UNCHANGED sentVars
  /\ ex.pc = "run"
  /\ SendRun(ex, ex.node)
  /\ UNCHANGED <<rt, events, exitStatus>>

\* index.ts:261-360: what executeNodes returns
ExecuteResult(assertionsPassed, failure) ==
  [assertionsPassed |-> assertionsPassed, failure |-> failure]

\* index.ts:302-310: session.run() has returned the RUN's result
RunReturnedFailsOnNonZero(e, runResult) ==
  IF runResult.exitCode # 0
  THEN Executed(e,
         ExecuteResult(e.assertionsPassed,
           Some(Failure(e.file, e.nodeCount, e.currentTestName,
                        <<e.node.command>>, Undefined, <<"Command failed">>))))
  ELSE [e EXCEPT !.pc = "loop", !.wait = NoWait,
                 !.lastRunResult = Some(runResult)]
RunReturned(e, runResult) ==
  [e EXCEPT
     !.pc = "loop", !.wait = NoWait,
     !.lastRunResult = Some(runResult),
     !.runResults = IF e.node.name # Undefined
                    THEN [@ EXCEPT ![e.node.name] = Some(runResult)]
                    ELSE @]

\* shell.ts:319-328, index.ts:304-310: the RUN's sentinel is in the buffer
SentinelFound ==
  /\ UNCHANGED sentVars
  /\ ex.pc = "waitForSentinel"
  /\ LET f == ex.file
         result == extractSentinel(sess[f].outputBuffer, ex.runId)
         runResult == RunResult(ex.runId, result)
     IN  /\ result.found
         /\ sess' = [sess EXCEPT ![f].outputBuffer = result.remaining]
         /\ ex' = RunReturned(ex, runResult)
  /\ UNCHANGED <<rt, shell, hist, events, exitStatus>>

\* shell.ts:333-335: the message of the error waitForSentinel throws
TimeoutText == <<"Timeout waiting for command completion">>
TimeoutErrorAnonymous(runId) == TimeoutText
TimeoutError(runId) ==
  TimeoutText \o <<" (30000ms). ", "Run ID: ">> \o runId

SentinelExpireGoesOn ==
  /\ UNCHANGED sentVars
  /\ ex.pc = "waitForSentinel"
  /\ ~extractSentinel(sess[ex.file].outputBuffer, ex.runId).found
  /\ ex' = [ex EXCEPT !.pc = "loop", !.wait = NoWait]
  /\ UNCHANGED <<rt, sess, shell, hist, events, exitStatus>>
\* shell.ts:333-335, index.ts:311-323: the timeout has passed: run() throws
\* and executeNodes returns the failure
SentinelExpire ==
  /\ UNCHANGED sentVars
  /\ ex.pc = "waitForSentinel"
  /\ ~extractSentinel(sess[ex.file].outputBuffer, ex.runId).found
  /\ ex' = Executed(ex,
              ExecuteResult(ex.assertionsPassed,
                Some(Failure(ex.file, NodeLine, ex.currentTestName,
                             <<ex.node.command>>, Undefined,
                             TimeoutError(ex.runId)))))
  /\ hist' = [hist EXCEPT !.failed[ex.file] = TRUE]
  /\ UNCHANGED <<rt, sess, shell, events, exitStatus>>

\* node.raw of an ASSERT node: the text of its line
Raw(node) ==
  <<"ASSERT ">>
    \o (IF node.expression.target # Undefined
        THEN node.expression.target \o <<".">> ELSE <<>>)
    \o <<"exit_code ", node.expression.operator, " ">>
    \o NumToString(node.expression.value)

\* index.ts:336-350: a failed assertion ends executeNodes
AssertFailedGoesOn(e, node, result) ==
  [e EXCEPT !.assertionsPassed = @]
AssertFailed(e, node, result) ==
  Executed(e,
    ExecuteResult(e.assertionsPassed,
      Some([Failure(e.file, e.nodeCount, e.currentTestName,
                    IF e.lastRunResult = None THEN Undefined
                    ELSE e.lastRunResult[1].runId,
                    Raw(node), result.error)
              EXCEPT !.expected = result.expected, !.actual = result.actual])))

\* index.ts:327-355: an ASSERT node
ExecAssert ==
  /\ UNCHANGED sentVars
  /\ AtNode
  /\ \E node \in NodesOfType("assert") :
       LET result == evaluateAssertion(node, ex.lastRunResult, ex.runResults)
           f == ex.file
       IN  IF ~result.passed
           THEN /\ ex' = AssertFailed(Advance(ex, node), node, result)
                /\ hist' = [hist EXCEPT !.assertsEvaluated[f] = @ + 1,
                                        !.failed[f] = TRUE]
           ELSE /\ ex' = [Advance(ex, node) EXCEPT !.assertionsPassed = @ + 1]
                /\ hist' = [hist EXCEPT !.assertsEvaluated[f] = @ + 1,
                                        !.assertsPassed[f] = @ + 1]
  /\ UNCHANGED <<rt, sess, shell, events, exitStatus>>

\* index.ts:359: the loop has run over every node
ExecEnd ==
  /\ UNCHANGED sentVars
  /\ ex.pc = "loop"
  /\ ex' = Executed(ex, ExecuteResult(ex.assertionsPassed, None))
  /\ UNCHANGED <<rt, sess, shell, hist, events, exitStatus>>

(***************************************************************************)
(* The shell subprocess and the reader task.                               *)
(***************************************************************************)
SentinelTimestamp == <<"7">>

\* what a command writes to stdout, and its exit code
CommandOutput(sh, command) == IF command = "pwd" THEN sh.cwd \o <<NL>> ELSE <<>>
CommandExitCode(command) == IF command = "false" THEN 1 ELSE 0

\* what executing a line makes the shell write to stdout
LineOutput(sh, line) ==
  CASE line.op = "echo" -> line.text \o <<NL>>
    [] line.op = "wrapper" /\ line.command # "sleep" ->
         CommandOutput(sh, line.command)
           \o SentinelLine(line.text, NumToString(CommandExitCode(line.command)),
                           SentinelTimestamp)
    [] OTHER -> <<>>

\* what executing a line makes of the shell: the wrapper groups the command
\* in braces (sentinel.ts:58-63), so it runs in the shell itself
LineEffectSubshell(sh, line) ==
  CASE line.op = "export" ->
         [sh EXCEPT !.env = @ \cup line.keys, !.pragmaEnv = @ \ line.keys]
    [] line.op = "unset" ->
         [sh EXCEPT !.env = @ \ line.keys, !.pragmaEnv = @ \ line.keys]
    [] line.op = "wrapper" /\ line.command = "sleep" -> [sh EXCEPT !.busy = TRUE]
    [] line.op = "exit" -> [sh EXCEPT !.alive = FALSE]
    [] OTHER -> sh
LineEffect(sh, line) ==
  CASE line.op = "export" ->
         [sh EXCEPT !.env = @ \cup line.keys, !.pragmaEnv = @ \ line.keys]
    [] line.op = "unset" ->
         [sh EXCEPT !.env = @ \ line.keys, !.pragmaEnv = @ \ line.keys]
    [] line.op = "wrapper" /\ line.command = "sleep" -> [sh EXCEPT !.busy = TRUE]
    [] line.op = "wrapper" /\ line.command = "cd sub" ->
         [sh EXCEPT !.cwd = @ \o <<"sub/">>]
    [] line.op = "exit" -> [sh EXCEPT !.alive = FALSE]
    [] OTHER -> sh

\* The shell executes the next line of its stdin and the reader task
\* (shell.ts:142-150) appends what it wrote to the session's buffer.  A
\* wrapper (sentinel.ts:62-67) runs the command in the shell itself, so `cd'
\* moves the shell, and then prints the sentinel with the command's exit
\* code; a command that does not end leaves the shell busy.
ShellExec(f) ==
  /\ UNCHANGED sentVars
  /\ shell[f].alive
  /\ ~shell[f].busy
  /\ shell[f].stdin # <<>>
  /\ LET line == Head(shell[f].stdin)
         sh == [shell[f] EXCEPT !.stdin = Tail(@)]
     IN  /\ shell' = [shell EXCEPT ![f] = LineEffect(sh, line)]
         /\ sess' = IF sess[f].reading
                    THEN [sess EXCEPT ![f].outputBuffer = @ \o LineOutput(sh, line)]
                    ELSE sess
  /\ UNCHANGED <<rt, ex, hist, events, exitStatus>>

(***************************************************************************)
(* getCwd (src/core/runner/shell.ts:341-357) with the reader task          *)
(* (133-161) and waitForString (166-177).  The shell's answer to the echo  *)
(* reaches the buffer in any number of chunks.                             *)
(***************************************************************************)
\* ShellConfig.cwd, the directory the shell was started in
ConfigCwd == <<"/">>

\* the directories the shell may be in when it is asked: the one it was
\* started in, or another after a RUN with cd
ShellCwds == {<<"/">>, <<"/", "s">>, <<"/", "s", "/", "s">>}

\* what the statements before may have left in the buffer
LeftInBuffer == {<<>>, <<"x", NL>>}

CwdInputs ==
  {[pc |-> "called", pwd |-> d, outputBuffer |-> b, marker |-> <<>>,
    unread |-> <<>>, found |-> FALSE, result |-> <<>>] :
     d \in ShellCwds, b \in LeftInBuffer}

\* buffer.match(new RegExp(`${marker}(.+?)${marker}`)): the first marker
\* that is followed, on the same line and after at least one character, by
\* another marker; the match's group is what stands between them
MarkerPairs(buffer, marker) ==
  {p \in (0..Len(buffer)) \X (0..Len(buffer)) :
     /\ OccursAt(buffer, marker, p[1])
     /\ p[2] >= p[1] + Len(marker) + 1
     /\ OccursAt(buffer, marker, p[2])
     /\ \A k \in (p[1] + Len(marker) + 1)..p[2] : buffer[k] # NL}
MatchBetween(buffer, marker) ==
  IF MarkerPairs(buffer, marker) = {}
  THEN None
  ELSE LET p == CHOOSE p \in MarkerPairs(buffer, marker) :
                  \A q \in MarkerPairs(buffer, marker) :
                     \/ p[1] < q[1]
                     \/ p[1] = q[1] /\ p[2] <= q[2]
       IN  Some(Substring(buffer, p[1] + Len(marker), p[2]))

\* shell.ts:342-343: getCwd writes echo "${marker}$PWD${marker}"; the shell
\* answers with that line
GetCwdWrite ==
  /\ UNCHANGED execVars
  /\ UNCHANGED pollVars
  /\ cwdq.pc = "called"
  /\ LET marker == Marker("__HONE_CWD_", 0)
     IN  cwdq' = [cwdq EXCEPT
                    !.pc = "waitForString", !.marker = marker,
                    !.unread = marker \o cwdq.pwd \o marker \o <<NL>>]

\* shell.ts:142-150: the reader appends the next chunk of the shell's output
CwdReaderAppend ==
  /\ UNCHANGED execVars
  /\ UNCHANGED pollVars
  /\ cwdq.pc # "idle"
  /\ cwdq.unread # <<>>
  /\ \E n \in 1..Len(cwdq.unread) :
       cwdq' = [cwdq EXCEPT
                  !.outputBuffer = @ \o SubSeq(cwdq.unread, 1, n),
                  !.unread = SubSeq(@, n + 1, Len(@))]

\* shell.ts:345-355: waitForString has seen the marker
CwdFound ==
  /\ UNCHANGED execVars
  /\ UNCHANGED pollVars
  /\ cwdq.pc = "waitForString"
  /\ Includes(cwdq.outputBuffer, cwdq.marker)
  /\ LET match == MatchBetween(cwdq.outputBuffer, cwdq.marker)
     IN  cwdq' = IF match # None
                 THEN [cwdq EXCEPT !.pc = "returned", !.found = TRUE,
                                   !.outputBuffer = <<>>, !.result = match[1]]
                 ELSE [cwdq EXCEPT !.pc = "returned", !.found = TRUE,
                                   !.result = ConfigCwd]

\* shell.ts:345-348: 2000 ms have passed without the marker
CwdExpire ==
  /\ UNCHANGED execVars
  /\ UNCHANGED pollVars
  /\ cwdq.pc = "waitForString"
  /\ ~Includes(cwdq.outputBuffer, cwdq.marker)
  /\ cwdq' = [cwdq EXCEPT !.pc = "returned", !.result = ConfigCwd]

(***************************************************************************)
(* Specifications.                                                         *)
(***************************************************************************)
SentIdle ==
  /\ sBuffer = <<>> /\ sExpected = RunIdA /\ sResult = NoPoll
  /\ sPolled = <<>> /\ sAppends = 0

PollIdle == SentIdle /\ PureIdle

Init == ExecInit /\ PollIdle /\ cwdq = [pc |-> "idle"]

Next ==
  \/ ResolveFiles \/ ParseAll \/ CollectParseResult \/ CollectDone
  \/ RunTestsReturn \/ CliExit
  \/ RunFileBegin \/ SessionStart \/ ReadyFound \/ ReadyExpire
  \/ RunFileCatch \/ RunFileFinally \/ RunFileReturn
  \/ ExecComment \/ ExecTest \/ SetCurrentTest \/ ExecEnv
  \/ FlushFound \/ FlushExpire
  \/ ExecRun \/ RunAfterEnv \/ SentinelFound \/ SentinelExpire
  \/ ExecAssert \/ ExecEnd
  \/ \E f \in Files : ShellExec(f)

Spec == Init /\ [][Next]_vars

SentinelInit == ExecInit /\ SentInit

\* the run is given any shell with --shell
ShellsInit ==
  /\ \E shellPath \in ShellPaths : ExecInitWith(shellPath)
  /\ PollIdle
  /\ cwdq = [pc |-> "idle"]

\* getCwd() is called in a session whose shell is in any of the directories
\* and whose buffer holds anything left by the statements before
CwdInit == ExecInit /\ PollIdle /\ cwdq \in CwdInputs

CwdNext == GetCwdWrite \/ CwdReaderAppend \/ CwdFound \/ CwdExpire

SpecCwd == CwdInit /\ [][CwdNext]_vars

\* the run of Spec with further stop() calls on the sessions
SpecDispose == Init /\ [][Next \/ Dispose]_vars

SpecShells == ShellsInit /\ [][Next]_vars

SentinelNext == SentReaderAppend \/ SentPoll

SpecSentinel == SentinelInit /\ [][SentinelNext]_vars

(***************************************************************************)
(* Properties.                                                             *)
(***************************************************************************)
\* the files runTests resolved
Resolved == {rt.files[k] : k \in DOMAIN rt.files}

\* the file was read and parseFile collected no error in it
ParsedClean(f) == hist.input[f].readable /\ hist.input[f].errors = 0
HasParseErrors(f) == hist.input[f].readable /\ hist.input[f].errors > 0

Reported(name, f) == \E k \in DOMAIN events : events[k] = <<name, f>>

\* C1: once the first failure of a file is recorded, no further RUN of
\* that file is written to the shell and no further ASSERT of it is
\* evaluated; the file's result carries that one failure and the number of
\* assertions that passed before it.
C1_FailFast ==
  /\ [][\A f \in Files :
          hist.failed[f] =>
            /\ hist'.runsWritten[f] <= hist.runsWritten[f]
            /\ hist'.assertsEvaluated[f] <= hist.assertsEvaluated[f]
            /\ hist'.assertsPassed[f] <= hist.assertsPassed[f]]_vars
  /\ [](\A f \in Files :
          (hist.failed[f] /\ ex.file = f /\ ex.pc = "finally") =>
            /\ ex.result # None
            /\ ex.result[1].failure # None
            /\ ~ex.result[1].passed
            /\ ex.result[1].assertionsFailed = 1
            /\ ex.result[1].assertionsPassed = hist.assertsPassed[f])

\* a file failed at an ASSERT after a RUN and a passing ASSERT, with
\* statements of the file left
C1_Witness ==
  /\ ex.pc = "finally"
  /\ hist.failed[ex.file]
  /\ ex.result[1].failure # None
  /\ ex.result[1].failure[1].assertion # Undefined
  /\ ex.result[1].assertionsPassed = 1
  /\ hist.assertsEvaluated[ex.file] = 2
  /\ hist.runsWritten[ex.file] = 1
  /\ ex.result[1].failure[1].line < NodeBound

\* C2: a RUN whose command exits with a non-zero code is not a failure: it
\* yields a RunResult with that exit code and execution goes on; a file
\* fails only at an ASSERT, at a RUN that timed out or when the session
\* threw; and ASSERT exit_code != 0 fails only on the exit code 0, so after
\* such a RUN it passes.
C2_NonZeroExitIsNoFailure ==
  /\ (ex.pc = "loop" /\ ex.node.type = "run") =>
        /\ ex.result = None
        /\ ex.lastRunResult # None
        /\ ex.lastRunResult[1].exitCode = CommandExitCode(ex.node.command)
        /\ ex.lastRunResult[1].runId = ex.runId
  /\ (ex.result # None /\ ex.result[1].failure # None) =>
        LET failure == ex.result[1].failure[1]
        IN  /\ \/ failure.assertion # Undefined
               \/ StartsWith(failure.error, TimeoutText)
               \/ failure.line = 0
            /\ failure.expected = <<"exit_code ", "!=", " ", "0">> =>
                  failure.actual = <<"0">>

\* RUN false was followed by ASSERT exit_code != 0, which passed
C2_Witness ==
  /\ ex.pc = "loop"
  /\ ex.node.type = "assert"
  /\ ex.node.expression.target = Undefined
  /\ ex.node.expression.operator = "!="
  /\ ex.lastRunResult # None
  /\ ex.lastRunResult[1].exitCode = 1
  /\ ex.assertionsPassed = 1
  /\ ~hist.failed[ex.file]

C4_ErrorsNeverCrossFiles ==
  exitStatus # -1 =>
    /\ rt.pc = "returned"
    /\ rt.testResults[1].totalFiles = Len(rt.files)
    /\ \A f \in Resolved : ParsedClean(f) => hist.executed[f] = 1
    /\ \A j, k \in DOMAIN rt.results :
         j < k => rt.results[j].filename < rt.results[k].filename

\* C5: the process exits with 0 if and only if every resolved file parsed
\* without error and was executed without a recorded failure, and with 1
\* otherwise.
C5_ExitStatus ==
  exitStatus # -1 =>
    /\ exitStatus \in {0, 1}
    /\ exitStatus = 0 <=>
         \A f \in Resolved :
           ParsedClean(f) /\ hist.executed[f] = 1 /\ ~hist.failed[f]

\* the process exited with 1 although no executed file failed: a file had
\* parse errors
C5_Witness ==
  /\ exitStatus = 1
  /\ rt.pc = "returned"
  /\ \A f \in Files : ~hist.failed[f]
  /\ \E f \in Resolved : hist.executed[f] = 1
  /\ \E f \in Resolved : HasParseErrors(f)

\* the working directory `cd sub' leaves after k of them
RECURSIVE CwdAfter(_)
CwdAfter(k) == IF k = 0 THEN <<"/">> ELSE CwdAfter(k - 1) \o <<"sub/">>

\* the last line of a text
LastLine(text) ==
  LET parts == Split(text, NL) IN parts[Len(parts)]

C7_NoOverlap ==
  /\ Cardinality({f \in Files : shell[f].alive}) <= 1
  /\ Cardinality({f \in Files : sess[f].process # "null"}) <= 1
  /\ Cardinality({f \in Files : sess[f].reading}) <= 1
  /\ \A f \in Files :
       (ex.file = f /\ ex.pc # "idle") =>
         \A g \in Files \ {f} :
           hist.started[g] > 0 =>
             /\ hist.stopped[g] = 1
             /\ ~shell[g].alive
             /\ sess[g].process = "null"

\* the second file's session has its process after the first file's
\* session was started and stopped
C7_Witness ==
  \E f, g \in Files :
    /\ f # g
    /\ sess[g].process = "spawned"
    /\ shell[g].alive
    /\ hist.started[f] = 1
    /\ hist.stopped[f] = 1

HasSentinelFor(buffer, runId) ==
  \E ec \in {<<"0">>, <<"1">>} :
    Includes(buffer, SentinelLine(runId, ec, <<"7">>))

\* C9: when the buffer holds the complete sentinel line of the RUN waited
\* for, the poll of waitForSentinel returns the RUN's result, also when
\* text resembling a sentinel stands earlier in the buffer.
C9_SentinelObserved ==
  (sResult.polled /\ HasSentinelFor(sPolled, sExpected)) => sResult.found

\* the fields of the line that begins at the first sentinel prefix of the
\* buffer
FirstSentinelFields(buffer) ==
  LET from == SubstringFrom(buffer, IndexOf(buffer, SENTINEL_PREFIX))
      line == Substring(from, 0, IndexOf(from, <<NL>>))
  IN  Split(line, UNIT_SEPARATOR)

\* C10: extractSentinel reports found only for a sentinel line whose runId
\* field is the expected runId; the exit code and the output it returns are
\* those of that line.
C10_OnlyOwnRunId ==
  sResult.found =>
    /\ sResult.sentinel # Null
    /\ sResult.sentinel[1].runId = sExpected
    /\ Includes(sPolled, SENTINEL_PREFIX)
    /\ Len(FirstSentinelFields(sPolled)) = 4
    /\ FirstSentinelFields(sPolled)[2] = sExpected
    /\ StartsWith(FirstSentinelFields(sPolled)[3],
                  NumToString(sResult.sentinel[1].exitCode))
    /\ StartsWith(sPolled, sResult.output)

\* a poll inspected a buffer holding a well-formed sentinel line of another
\* RUN and did not report it
C10_Witness ==
  /\ sResult.polled
  /\ ~sResult.found
  /\ sExpected = RunIdA
  /\ sPolled = SentinelLine(RunIdB, <<"0">>, <<"7">>)

\* the failure runFile holds for its file, if any
FileFailure ==
  IF ex.result # None /\ ex.result[1].failure # None
  THEN ex.result[1].failure ELSE None

\* C11: a RUN whose sentinel is not observed within the timeout ends with
\* the timeout error that names the runId of that RUN; the step that gives
\* up leaves the session and its process as they are, not killed and not
\* started again; and a running shell ends only in the stop() of runFile's
\* finally block.
C11_TimeoutNamesRunId ==
  /\ [][(ex.pc = "waitForSentinel" /\ ex'.pc = "finally") =>
          /\ ex'.result # None
          /\ ex'.result[1].failure # None
          /\ StartsWith(ex'.result[1].failure[1].error, TimeoutText)
          /\ EndsWith(ex'.result[1].failure[1].error,
                      <<"Run ID: ">> \o ex.runId)
          /\ ex.runId = generateRunId(FileBase(ex.file),
                                      sess[ex.file].currentTestName,
                                      ex.node.name, sess[ex.file].runIndex)
          /\ sess' = sess
          /\ shell' = shell
          /\ shell[ex.file].alive
          /\ sess[ex.file].process = "spawned"
          /\ hist'.started = hist.started
          /\ hist'.stopped = hist.stopped]_vars
  /\ [][\A f \in Files :
          (shell[f].alive /\ ~shell'[f].alive) =>
             /\ ex.file = f
             /\ ex.pc = "finally"
             /\ ex'.pc = "return"
             /\ hist'.stopped[f] = hist.stopped[f] + 1]_vars

\* a RUN of sleep has timed out: the failure names its runId and the shell
\* is still alive and busy with the command
C11_Witness ==
  /\ ex.pc = "finally"
  /\ FileFailure # None
  /\ FileFailure[1].runCommand = <<"sleep">>
  /\ StartsWith(FileFailure[1].error, TimeoutText)
  /\ EndsWith(FileFailure[1].error, NumToString(hist.runsWritten[ex.file]))
  /\ shell[ex.file].alive
  /\ shell[ex.file].busy
  /\ hist.stopped[ex.file] = 0

\* the wait the executor is in has found what it waits for
WaitSatisfied ==
  IF ex.wait.kind = "sentinel"
  THEN extractSentinel(sess[ex.file].outputBuffer, ex.runId).found
  ELSE MarkerSeen(ex.file, ex.wait.marker)

\* C12: when a wait ends without its marker in the buffer, the operation
\* reports a failure to its caller: the executor goes to runFile's catch
\* block or returns a failure, and never goes on as after a success.
C12_ExpiryIsFailure ==
  [][(ex.wait.kind # "none" /\ ex'.wait # ex.wait /\ ~WaitSatisfied) =>
        \/ ex'.pc = "catch"
        \/ /\ ex'.pc = "finally"
           /\ ex'.result # None
           /\ ex'.result[1].failure # None]_vars

\* the executor has not come past start()
InStart == ex.pc \in {"idle", "start", "waitForReady", "catch"}

\* C13: before the readiness marker has been observed nothing but the
\* readiness echo is written to the shell, and the executor does not enter
\* the statements of the file; when the marker is not observed start()
\* throws its 'Shell failed to start' error, the file is recorded as failed
\* at line 0 with no RUN written, and when runFile has returned for it the
\* session is stopped.
C13_ReadinessHandshake ==
  /\ \A f \in Files :
       ~hist.ready[f] =>
          /\ hist.runsWritten[f] = 0
          /\ shell[f].env = {}
          /\ sess[f].testEnvVars = {}
          /\ \A k \in DOMAIN shell[f].stdin :
               /\ k = 1
               /\ shell[f].stdin[k].op = "echo"
               /\ shell[f].stdin[k].text = Marker("__HONE_READY_", 0)
  /\ (~InStart /\ ex.pc \notin {"finally", "return"}) => hist.ready[ex.file]
  /\ (ex.pc = "catch" /\ ex.thrown = ReadyError(rt.shell)) =>
        /\ ~hist.ready[ex.file]
        /\ hist.started[ex.file] = 1
  /\ (ex.pc = "finally" /\ FileFailure # None
        /\ FileFailure[1].error = ReadyError(rt.shell)) =>
        /\ FileFailure[1].line = 0
        /\ ~ex.result[1].passed
        /\ ~hist.ready[ex.file]
        /\ hist.failed[ex.file]
        /\ hist.runsWritten[ex.file] = 0
  /\ \A k \in DOMAIN rt.results :
       (rt.results[k].failure # None
          /\ rt.results[k].failure[1].error = ReadyError(rt.shell)) =>
          /\ ~rt.results[k].passed
          /\ hist.stopped[rt.results[k].filename] = 1
          /\ ~shell[rt.results[k].filename].alive
          /\ sess[rt.results[k].filename].process = "null"

\* runFile has returned for a file whose shell did not answer the readiness
\* echo in time
C13_Witness ==
  \E k \in DOMAIN rt.results :
    /\ rt.results[k].failure # None
    /\ rt.results[k].failure[1].error = ReadyError(rt.shell)
    /\ hist.started[rt.results[k].filename] = 1
    /\ hist.stopped[rt.results[k].filename] = 1

\* C14: for a configured shell whose basename is not in the allowlist,
\* start() fails before a process is spawned and before a RUN is written.
C14_UnsupportedShellNotSpawned ==
  ~isShellSupported(rt.shell) =>
     \A f \in Files :
       /\ hist.started[f] = 0
       /\ ~shell[f].alive
       /\ hist.runsWritten[f] = 0

\* the shell after it has executed all that is written to its stdin
RECURSIVE Drained(_)
Drained(sh) ==
  IF sh.stdin = <<>>
  THEN sh
  ELSE Drained(LineEffect([sh EXCEPT !.stdin = Tail(@)], Head(sh.stdin)))

\* C15: when a RUN executes, every test variable set in the shell was
\* declared by an ENV statement of the RUN's own block (the statements since
\* the last TEST, or since the start of the file).
C15_EnvOnlyInItsBlock ==
  ex.pc = "waitForSentinel" =>
     Drained(shell[ex.file]).env \subseteq hist.declared[ex.file]

\* C16: when the wrapper of a RUN is written the shell has executed every
\* export and every unset written before it.
C16_EnvProcessedBeforeRun ==
  \A f \in Files :
    \A k \in DOMAIN shell[f].stdin :
      shell[f].stdin[k].op = "wrapper" =>
         \A j \in 1..(k - 1) : shell[f].stdin[j].op \notin {"export", "unset"}

\* the result of a RUN is the one of the written RUN w
IsResultOf(runResult, w) ==
  IF w = None
  THEN runResult = None
  ELSE /\ runResult # None
       /\ runResult[1].runId = w[1].runId
       /\ runResult[1].exitCode = CommandExitCode(w[1].command)

\* the RUN name an assertion text refers to, if any
TargetOf(assertion) ==
  IF \E name \in RunNames : StartsWith(assertion, <<"ASSERT ">> \o name \o <<".">>)
  THEN Some(CHOOSE name \in RunNames :
              StartsWith(assertion, <<"ASSERT ">> \o name \o <<".">>))
  ELSE None

\* C17: between statements the last result is the one of the RUN written
\* last and the result kept under a name is the one of the RUN of that name,
\* whatever TEST and RUN statements came since; an ASSERT without target
\* passes or fails on the exit code of the RUN written last, an ASSERT with
\* target N on the exit code of the RUN named N, and when no RUN named N was
\* executed it fails with the error 'No RUN named N found'.
C17_TargetResolution ==
  LET f == ex.file
  IN  /\ ex.pc = "loop" =>
           /\ IsResultOf(ex.lastRunResult, hist.lastRun[f])
           /\ \A name \in RunNames :
                IsResultOf(ex.runResults[name], hist.named[f][name])
      /\ (ex.pc = "loop" /\ ex.node.type = "assert") =>
           LET expr == ex.node.expression
               w == IF expr.target = Undefined
                    THEN hist.lastRun[f] ELSE hist.named[f][expr.target]
           IN  /\ w # None
               /\ evaluateExitCodePredicate(CommandExitCode(w[1].command),
                                            expr).passed
      /\ (ex.pc = "finally" /\ FileFailure # None
            /\ FileFailure[1].assertion # Undefined) =>
           LET failure == FileFailure[1]
               target == TargetOf(failure.assertion)
               w == IF target = None
                    THEN hist.lastRun[f] ELSE hist.named[f][target[1]]
           IN  IF w # None
               THEN /\ failure.actual = NumToString(CommandExitCode(w[1].command))
                    /\ failure.error = Undefined
               ELSE failure.error =
                      IF target = None
                      THEN <<"ASSERT without a preceding RUN">>
                      ELSE <<"No RUN named ">> \o target[1] \o <<" found">>

\* an ASSERT with target a has passed in a later TEST block than RUN a, after
\* another RUN with another exit code
C17_Witness ==
  /\ ex.pc = "loop"
  /\ ex.node.type = "assert"
  /\ ex.node.expression.target = <<"a">>
  /\ ex.assertionsPassed = 1
  /\ hist.named[ex.file][<<"a">>] # None
  /\ hist.named[ex.file][<<"a">>][1].block < hist.tests[ex.file]
  /\ ex.lastRunResult # None
  /\ ex.lastRunResult[1].exitCode = 0
  /\ ex.lastRunResult[1].runId # ex.runResults[<<"a">>][1].runId

\* C18: an ASSERT without target whose test block has no RUN before it does
\* not pass, and fails with the error 'ASSERT without a preceding RUN'.
C18_NoRunInBlockIsError ==
  LET f == ex.file
      NoRunInBlock == \/ hist.lastRun[f] = None
                      \/ hist.lastRun[f][1].block # hist.tests[f]
  IN  /\ (ex.pc = "loop" /\ ex.node.type = "assert"
            /\ ex.node.expression.target = Undefined) => ~NoRunInBlock
      /\ (ex.pc = "finally" /\ FileFailure # None
            /\ FileFailure[1].assertion # Undefined
            /\ TargetOf(FileFailure[1].assertion) = None
            /\ NoRunInBlock) =>
           FileFailure[1].error = <<"ASSERT without a preceding RUN">>

\* C19: when getCwd() has seen its marker in the buffer it returns the
\* directory the shell is in, however the reader's appends fall between the
\* polls.
C19_CwdIsShellCwd ==
  (cwdq.pc = "returned" /\ cwdq.found) => cwdq.result = cwdq.pwd

\* C20: the failure executeNodes returns carries the file, the line of the
\* statement and the current test name; the failure of a RUN carries the
\* RUN's command; the failure of an ASSERT carries the assertion text,
\* expected and actual, and as its RUN reference the command of the RUN the
\* assertion was evaluated against.
C20_FailureCarriesContext ==
  (ex.pc = "finally" /\ FileFailure # None /\ FileFailure[1].line # 0) =>
     LET f == ex.file
         failure == FileFailure[1]
         target == TargetOf(failure.assertion)
         w == IF failure.assertion = Undefined \/ target = None
              THEN hist.lastRun[f] ELSE hist.named[f][target[1]]
     IN  /\ failure.filename = f
         /\ failure.line \in 1..MaxNodesAlone
         /\ failure.testName =
              (IF hist.tests[f] = 0 THEN Undefined ELSE sess[f].currentTestName)
         /\ failure.assertion # Undefined =>
              /\ failure.expected # Undefined
              /\ failure.actual # Undefined
         /\ w # None => failure.runCommand = <<w[1].command>>

\* C21: once stop() has been called on a session, a further stop() leaves
\* it stopped: no process, the reader told to end, nothing written to a
\* shell and no shell alive; and the step of a further stop() changes
\* neither the session nor any shell.
C21_StopIdempotent ==
  \A f \in Files :
    (hist.stopped[f] >= 1 /\ ~(ex.file = f /\ ex.pc \notin {"idle", "return"})) =>
       /\ sess[f].process = "null"
       /\ ~sess[f].reading
       /\ shell[f] = ShellInit
       /\ hist.stopped[f] >= 2 => sess[f] = Forgotten(sess[f])

\* stop() was called twice on the session of a file whose shell had been
\* spawned
C21_Witness ==
  \E f \in Files :
    /\ hist.stopped[f] = 2
    /\ hist.started[f] = 1
    /\ sess[f].process = "null"

(***************************************************************************)
(* The lexer (parser/lexer.ts).  A line is a sequence of characters; the   *)
(* words the code matches whole (TEST, RUN, ASSERT, ENV, a pragma key, a   *)
(* selector, an operator, a command) are one symbol each.                  *)
(***************************************************************************)
DQ == "\""
SQ == "'"
BS == "\\"
TAB == "\t"

\* lexer.ts:34-66
classifyLine(line) ==
  LET trimmed == Trim(line)
  IN  [type |->
         IF trimmed = <<>> THEN "EMPTY"
         ELSE IF StartsWith(trimmed, <<"#", "!">>) THEN "PRAGMA"
         ELSE IF StartsWith(trimmed, <<"#">>) THEN "COMMENT"
         ELSE IF StartsWith(trimmed, <<"TEST", " ">>) THEN "TEST"
         ELSE IF StartsWith(trimmed, <<"RUN", " ">>) THEN "RUN"
         ELSE IF StartsWith(trimmed, <<"ASSERT", " ">>) THEN "ASSERT"
         ELSE IF StartsWith(trimmed, <<"ENV", " ">>) THEN "ENV"
         ELSE "UNKNOWN",
       content |-> trimmed]

\* lexer.ts:91-111: what an escaped character adds to the value
EscapedValue(quoteType, char) ==
  IF quoteType = "double"
  THEN CASE char = "n" -> <<NL>>
         [] char = "t" -> <<TAB>>
         [] char = DQ  -> <<DQ>>
         [] char = BS  -> <<BS>>
         [] OTHER      -> <<BS, char>>
  ELSE <<BS, char>>

\* lexer.ts:87-131: the loop of parseStringLiteral from the 1-based
\* position i on
RECURSIVE ScanStringLiteral(_, _, _, _)
ScanStringLiteral(input, i, value, escaped) ==
  LET startChar == input[1]
      quoteType == IF startChar = DQ THEN "double" ELSE "single"
  IN  IF i > Len(input)
      THEN None
      ELSE IF escaped
      THEN ScanStringLiteral(input, i + 1,
                             value \o EscapedValue(quoteType, input[i]), FALSE)
      ELSE IF input[i] = BS
      THEN ScanStringLiteral(input, i + 1, value, TRUE)
      ELSE IF input[i] = startChar
      THEN Some([value |-> value, raw |-> SubSeq(input, 1, i),
                 quoteType |-> quoteType, endIndex |-> i])
      ELSE ScanStringLiteral(input, i + 1, value \o <<input[i]>>, FALSE)

\* lexer.ts:72-135, called with startIndex 0
parseStringLiteral(input) ==
  IF input = <<>> \/ input[1] \notin {DQ, SQ}
  THEN None
  ELSE ScanStringLiteral(input, 2, <<>>, FALSE)

\* lexer.ts:290-296
RECURSIVE skipWhitespace(_, _)
skipWhitespace(input, startIndex) ==
  IF startIndex < Len(input) /\ input[startIndex + 1] = " "
  THEN skipWhitespace(input, startIndex + 1)
  ELSE startIndex

\* lexer.ts:203-208: the run of digits and dots from the 0-based index i
RECURSIVE NumberEnd(_, _)
NumberEnd(input, i) ==
  IF i < Len(input) /\ (IsDigit(input[i + 1]) \/ input[i + 1] = ".")
  THEN NumberEnd(input, i + 1)
  ELSE i

\* the fraction digits as thousandths; the literals drawn have at most
\* three of them
FractionThousandths(ds) ==
  CASE Len(ds) = 0 -> 0
    [] Len(ds) = 1 -> 100 * DecimalValue(ds)
    [] Len(ds) = 2 -> 10 * DecimalValue(ds)
    [] OTHER       -> DecimalValue(SubSeq(ds, 1, 3))

\* parseFloat(s) for a string of digits and dots: the longest prefix that
\* is a decimal literal, NaN when it holds no digit.  The value is kept as
\* the number of thousandths the literal denotes.
ParseFloat(s) ==
  LET int  == LeadingDigits(s)
      rest == SubstringFrom(s, Len(int))
      frac == IF rest # <<>> /\ Head(rest) = "."
              THEN LeadingDigits(Tail(rest)) ELSE <<>>
  IN  IF int = <<>> /\ frac = <<>>
      THEN NaN
      ELSE Some(1000 * DecimalValue(int) + FractionThousandths(frac))

\* lexer.ts:222-224: the run of lower-case letters from the index i
UnitLetters == {"m", "s", "x"}
RECURSIVE UnitEnd(_, _)
UnitEnd(input, i) ==
  IF i < Len(input) /\ input[i + 1] \in UnitLetters
  THEN UnitEnd(input, i + 1)
  ELSE i

\* lexer.ts:186-243, called with startIndex 0
parseDuration(input) ==
  LET numStart  == skipWhitespace(input, 0)
      unitStart == NumberEnd(input, numStart)
      value     == ParseFloat(Substring(input, numStart, unitStart))
      i         == UnitEnd(input, unitStart)
      unit      == Substring(input, unitStart, i)
  IN  IF unitStart = numStart THEN None
      ELSE IF value = NaN THEN None
      ELSE IF unit # <<"m", "s">> /\ unit # <<"s">> THEN None
      ELSE Some([value |-> value[1], unit |-> unit,
                 raw |-> Trim(Substring(input, 0, i)), endIndex |-> i])

(***************************************************************************)
(* The parser (parser/index.ts).  A statement parser returns the node it   *)
(* made, if any, and the messages it handed to the collector for its line. *)
(***************************************************************************)
\* number of lines of the file parsed
MaxLines == 3

Parsed(node) == [node |-> Some(node), errors |-> <<>>, warnings |-> <<>>]
Rejected(message) == [node |-> None, errors |-> <<message>>, warnings |-> <<>>]

TopOfFileError == <<"Pragmas must appear at the top of the file">>
DuplicateRunName(name) == <<"Duplicate RUN name: ">> \o name
EmptyCommand == <<"Empty command in RUN statement">>
UnknownStatement(content) == <<"Unknown statement: ">> \o content

\* String.prototype.toLowerCase on the pragma keys drawn
ToLowerCase(s) ==
  [i \in 1..Len(s) |->
     CASE s[i] = "SHELL"   -> "shell"
       [] s[i] = "TIMEOUT" -> "timeout"
       [] OTHER            -> s[i]]

\* index.ts:136-210
parsePragma(content, line) ==
  LET rest        == Trim(SubstringFrom(content, 2))
      colonIndex  == IndexOf(rest, <<":">>)
      pragmaKey   == ToLowerCase(Trim(Substring(rest, 0, colonIndex)))
      pragmaValue == Trim(SubstringFrom(rest, colonIndex + 1))
      eqIndex     == IndexOf(pragmaValue, <<"=">>)
  IN  IF colonIndex = -1
      THEN Rejected(<<"Invalid pragma syntax: ">> \o content)
      ELSE IF pragmaKey = <<"shell">>
      THEN Parsed([type |-> "pragma", pragmaType |-> "shell",
                   value |-> pragmaValue, line |-> line])
      ELSE IF pragmaKey = <<"env">>
      THEN IF eqIndex = -1
           THEN Rejected(<<"Invalid env pragma: ">> \o content)
           ELSE Parsed([type |-> "pragma", pragmaType |-> "env",
                        key |-> Trim(Substring(pragmaValue, 0, eqIndex)),
                        value |-> SubstringFrom(pragmaValue, eqIndex + 1),
                        line |-> line])
      ELSE IF pragmaKey = <<"timeout">>
      THEN IF parseDuration(pragmaValue) = None
           THEN Rejected(<<"Invalid timeout format: ">> \o pragmaValue)
           ELSE Parsed([type |-> "pragma", pragmaType |-> "timeout",
                        value |-> pragmaValue, line |-> line])
      ELSE [node |-> Some([type |-> "pragma", pragmaType |-> "unknown",
                           value |-> rest, line |-> line]),
            errors |-> <<>>,
            warnings |-> <<(<<"Unknown pragma: ">> \o pragmaKey)>>]

\* index.ts:233: /^[a-zA-Z0-9 _-]+$/ on the characters drawn
TestNameChars == {"a", "b", "t", " ", "_", "-"}

\* index.ts:212-248; the keyword and its space are two symbols
parseTest(content, line) ==
  LET rest   == SubstringFrom(content, 2)
      result == parseStringLiteral(rest)
  IN  IF result = None
      THEN Rejected(<<"Invalid TEST syntax: expected quoted test name">>)
      ELSE IF result[1].value = <<>>
              \/ \E i \in 1..Len(result[1].value) :
                   result[1].value[i] \notin TestNameChars
      THEN Rejected(<<"Invalid test name: ">> \o result[1].value)
      ELSE Parsed([type |-> "test", name |-> result[1].value, line |-> line])

\* index.ts:260: /^([a-zA-Z_][a-zA-Z0-9_-]*):\s*/ on the symbols drawn
NameStart == {"a", "b", "_"}
NameRest == NameStart \cup {"0", "1", "-"}
RECURSIVE NameEnd(_, _)
NameEnd(rest, i) ==
  IF i < Len(rest) /\ rest[i + 1] \in NameRest
  THEN NameEnd(rest, i + 1)
  ELSE i

\* the match of that expression: the name and the length of the match, or
\* none
colonMatch(rest) ==
  IF rest = <<>> \/ rest[1] \notin NameStart
  THEN None
  ELSE LET n == NameEnd(rest, 1)
       IN  IF n < Len(rest) /\ rest[n + 1] = ":"
           THEN Some([name |-> Substring(rest, 0, n),
                      length |-> Len(rest) - Len(TrimStart(SubstringFrom(rest, n + 1)))])
           ELSE None

HasNever(runNames, name) == FALSE
\* index.ts:266: runNames.has(name)
Has(runNames, name) == name \in runNames

\* index.ts:250-300; the result carries the set of names as the call
\* leaves it
parseRun(content, line, runNames) ==
  LET rest    == SubstringFrom(content, 2)
      match   == colonMatch(rest)
      name    == match[1].name
      command == SubstringFrom(rest, match[1].length)
  IN  IF match # None
      THEN IF Has(runNames, name)
           THEN Rejected(DuplicateRunName(name)) @@ [runNames |-> runNames]
           ELSE IF Trim(command) = <<>>
           THEN Rejected(EmptyCommand) @@ [runNames |-> runNames \cup {name}]
           ELSE Parsed([type |-> "run", name |-> Some(name),
                        command |-> Trim(command), line |-> line])
                  @@ [runNames |-> runNames \cup {name}]
      ELSE IF Trim(rest) = <<>>
      THEN Rejected(EmptyCommand) @@ [runNames |-> runNames]
      ELSE Parsed([type |-> "run", name |-> None,
                   command |-> Trim(rest), line |-> line])
             @@ [runNames |-> runNames]

\* index.ts:325: /^[a-zA-Z_][a-zA-Z0-9_]*$/ on the symbols drawn
EnvNameStart == {"K", "a", "b", "_"}
EnvNameRest == EnvNameStart \cup {"0", "1"}

\* index.ts:302-339
parseEnv(content, line) ==
  LET rest    == SubstringFrom(content, 2)
      eqIndex == IndexOf(rest, <<"=">>)
      key     == Trim(Substring(rest, 0, eqIndex))
      value   == SubstringFrom(rest, eqIndex + 1)
  IN  IF eqIndex = -1
      THEN Rejected(<<"Invalid ENV syntax: expected KEY=value">>)
      ELSE IF key = <<>>
      THEN Rejected(<<"Invalid ENV syntax: empty key">>)
      ELSE IF key[1] \notin EnvNameStart
              \/ \E i \in 2..Len(key) : key[i] \notin EnvNameRest
      THEN Rejected(<<"Invalid environment variable name: ">> \o key)
      ELSE Parsed([type |-> "env", key |-> key, value |-> value, line |-> line])

\* lexer.ts:301-311 for a word that is one symbol
matchWord(input, startIndex, word) ==
  /\ startIndex < Len(input)
  /\ input[startIndex + 1] = word
  /\ startIndex + 1 < Len(input) => input[startIndex + 2] \in {" ", "."}

\* lexer.ts:316-331 for operators that are one symbol each
parseComparisonOperator(input, startIndex) ==
  LET i == skipWhitespace(input, startIndex)
  IN  IF i < Len(input) /\ input[i + 1] \in {"==", "!=", "<=", ">=", "<", ">"}
      THEN Some([operator |-> input[i + 1], endIndex |-> i + 1])
      ELSE None

\* lexer.ts:248-279
parseNumber(input, startIndex) ==
  LET numStart == skipWhitespace(input, startIndex)
      text     == SubstringFrom(input, numStart)
      sign     == IF text # <<>> /\ Head(text) = "-" THEN 1 ELSE 0
      digits   == LeadingDigits(SubstringFrom(text, sign))
  IN  IF digits = <<>>
      THEN None
      ELSE Some([value |-> ParseInt(Substring(text, 0, sign + Len(digits))),
                 endIndex |-> numStart + sign + Len(digits)])

\* index.ts:517-551
parseExitCodeAssertion(input, startIndex, line) ==
  LET opResult  == parseComparisonOperator(input, startIndex)
      numResult == parseNumber(input, opResult[1].endIndex)
  IN  IF opResult = None \/ opResult[1].operator \notin {"==", "!="}
      THEN Rejected(<<"Expected == or != after exit_code">>)
      ELSE IF numResult = None
      THEN Rejected(<<"Expected number after ">> \o <<opResult[1].operator>>)
      ELSE Parsed([type |-> "assert", line |-> line,
                   expression |->
                     [type |-> "exit_code",
                      predicate |-> [operator |-> opResult[1].operator,
                                     value |-> numResult[1].value]]])

\* index.ts:341-429 for the assertions drawn: on the exit code, or with a
\* selector the parser does not know
parseAssert(content, line) ==
  LET input == SubstringFrom(content, 2)
      i     == skipWhitespace(input, 0)
  IN  IF matchWord(input, i, "exit_code")
      THEN parseExitCodeAssertion(input, i + 1, line)
      ELSE Rejected(<<"Unknown assertion type: ">> \o input)

addErrorFirstOnly(errors, message, line) ==
  IF errors = <<>> THEN Append(errors, [message |-> message, line |-> line])
  ELSE errors
\* part_016:12-18, on the list of errors
addError(errors, message, line) ==
  Append(errors, [message |-> message, line |-> line])

RECURSIVE addErrors(_, _, _)
addErrors(errors, messages, line) ==
  IF messages = <<>> THEN errors
  ELSE addErrors(addError(errors, Head(messages), line), Tail(messages), line)

EndsPragmaSectionNever(type) == FALSE
\* index.ts:74,83,92,101,111: the statements that end the pragma section
EndsPragmaSection(type) == type \in {"TEST", "RUN", "ASSERT", "ENV", "UNKNOWN"}

\* the lines a file is made of
FileLines ==
  { <<>>,
    <<"#", " ", "c">>,
    <<"#", "!", " ", "shell", ":", " ", "sh">>,
    <<" ", "#", "!", "SHELL", ":", "sh">>,
    <<"#", "!", " ", "shell", " ", "sh">>,
    <<"TEST", " ", DQ, "t", DQ>>,
    <<"TEST", " ", "t">>,
    <<"RUN", " ", "ls">>,
    <<"RUN", " ", "a", ":", " ", "ls">>,
    <<"RUN", " ", "a", ":">>,
    <<"RUN", " ", "b", ":", "ls">>,
    <<"ASSERT", " ", "exit_code", " ", "==", " ", "0">>,
    <<"ASSERT", " ", "bogus">>,
    <<"ENV", " ", "K", "=", "v">>,
    <<"ENV", " ", "K">>,
    <<"ls">> }

\* index.ts:31-37
ParseStart ==
  [pc |-> "loop", lines |-> <<>>, errors |-> <<>>, warnings |-> <<>>,
   pragmas |-> <<>>, nodes |-> <<>>, runNames |-> {},
   inPragmaSection |-> TRUE]

\* index.ts:39-115: one iteration of the loop, on the next line of the file
ParseLine ==
  /\ UNCHANGED execVars
  /\ UNCHANGED <<sBuffer, sExpected, sResult, sPolled, sAppends, cwdq, ev>>
  /\ pf.pc = "loop"
  /\ Len(pf.lines) < MaxLines
  /\ \E line \in FileLines :
       LET lineNumber == Len(pf.lines) + 1
           token      == classifyLine(line)
           content    == token.content
           stmt ==
             CASE token.type = "PRAGMA" -> parsePragma(content, lineNumber)
               [] token.type = "TEST"   -> parseTest(content, lineNumber)
               [] token.type = "RUN"    ->
                    parseRun(content, lineNumber, pf.runNames)
               [] token.type = "ASSERT" -> parseAssert(content, lineNumber)
               [] token.type = "ENV"    -> parseEnv(content, lineNumber)
               [] token.type = "COMMENT" ->
                    Parsed([type |-> "comment",
                            text |-> Trim(SubstringFrom(content, 1)),
                            line |-> lineNumber])
               [] token.type = "UNKNOWN" -> Rejected(UnknownStatement(content))
               [] OTHER -> [node |-> None, errors |-> <<>>, warnings |-> <<>>]
           read == [pf EXCEPT !.lines = Append(@, line)]
       IN  pf' =
             IF token.type = "PRAGMA" /\ ~pf.inPragmaSection
             THEN [read EXCEPT
                     !.errors = addError(@, TopOfFileError, lineNumber)]
             ELSE [read EXCEPT
                     !.inPragmaSection =
                        IF EndsPragmaSection(token.type) THEN FALSE ELSE @,
                     !.errors = addErrors(@, stmt.errors, lineNumber),
                     !.warnings = @ \o stmt.warnings,
                     !.nodes = @ \o stmt.node,
                     !.pragmas =
                        IF token.type = "PRAGMA" THEN @ \o stmt.node ELSE @,
                     !.runNames =
                        IF token.type = "RUN" THEN stmt.runNames ELSE @]

\* part_016:28-30
hasErrors(errors) == Len(errors) > 0

\* index.ts:117-133: the file has no further line
ParseReturn ==
  /\ UNCHANGED execVars
  /\ UNCHANGED <<sBuffer, sExpected, sResult, sPolled, sAppends, cwdq, ev>>
  /\ pf.pc = "loop"
  /\ Len(pf.lines) >= 1
  /\ pf' = [pf EXCEPT
              !.pc = "returned",
              !.nodes = IF hasErrors(pf.errors) THEN <<>> ELSE @,
              !.pragmas = IF hasErrors(pf.errors) THEN <<>> ELSE @]
             @@ [success |-> ~hasErrors(pf.errors)]

ParseInit ==
  /\ ExecInit /\ SentIdle /\ cwdq = [pc |-> "idle"]
  /\ ev = [pc |-> "idle"]
  /\ pf = ParseStart

ParseNext == ParseLine \/ ParseReturn

SpecParse == ParseInit /\ [][ParseNext]_vars

(***************************************************************************)
(* Properties of the parser.                                               *)
(***************************************************************************)
TypeAt(lines, k) == classifyLine(lines[k]).type
ContentAt(lines, k) == classifyLine(lines[k]).content

\* the name line k gives to its RUN, if it is a RUN that has one
RunNameAt(lines, k) ==
  IF TypeAt(lines, k) = "RUN"
  THEN LET match == colonMatch(SubstringFrom(ContentAt(lines, k), 2))
       IN  IF match = None THEN None ELSE Some(match[1].name)
  ELSE None

\* line k carries the name of a RUN above it
RepeatsRunName(lines, k) ==
  /\ RunNameAt(lines, k) # None
  /\ \E j \in 1..(k - 1) : RunNameAt(lines, j) = RunNameAt(lines, k)

\* line k is a pragma below a statement or an unknown line
PragmaBelowStatement(lines, k) ==
  /\ TypeAt(lines, k) = "PRAGMA"
  /\ \E j \in 1..(k - 1) :
       TypeAt(lines, j) \in {"TEST", "RUN", "ASSERT", "ENV", "UNKNOWN"}

\* line k, read alone, is not a statement of the language
Malformed(lines, k) ==
  LET type    == TypeAt(lines, k)
      content == ContentAt(lines, k)
  IN  CASE type = "UNKNOWN" -> TRUE
        [] type = "PRAGMA"  -> parsePragma(content, k).node = None
        [] type = "TEST"    -> parseTest(content, k).node = None
        [] type = "RUN"     -> parseRun(content, k, {}).node = None
        [] type = "ASSERT"  -> parseAssert(content, k).node = None
        [] type = "ENV"     -> parseEnv(content, k).node = None
        [] OTHER            -> FALSE

ErroneousLines(lines) ==
  { k \in 1..Len(lines) :
      \/ Malformed(lines, k)
      \/ RepeatsRunName(lines, k)
      \/ PragmaBelowStatement(lines, k) }

\* C22: at every point of the pass, and in the result, the errors collected
\* are as many as the erroneous lines read, each error carries the number
\* of an erroneous line, no two carry the same number and they are in the
\* order of the lines; parseFile succeeds exactly when the file has no
\* erroneous line, and a failure carries no syntax tree.
C22_AllErrorsCollected ==
  pf.pc # "idle" =>
    LET bad == ErroneousLines(pf.lines)
    IN  /\ Len(pf.errors) = Cardinality(bad)
        /\ \A e \in 1..Len(pf.errors) : pf.errors[e].line \in bad
        /\ \A e \in 1..(Len(pf.errors) - 1) :
             pf.errors[e].line < pf.errors[e + 1].line
        /\ pf.pc = "returned" =>
             /\ pf.success <=> bad = {}
             /\ ~pf.success => pf.nodes = <<>>

\* parseFile returned two errors for a file whose first and third lines are
\* erroneous and whose second is a statement
C22_Witness ==
  /\ pf.pc = "returned"
  /\ Len(pf.lines) = 3
  /\ ErroneousLines(pf.lines) = {1, 3}
  /\ TypeAt(pf.lines, 2) = "RUN"
  /\ Len(pf.errors) = 2
  /\ ~pf.success

\* the positions in the nodes of the RUNs that have a name
NamedRunNodes(nodes) ==
  { x \in 1..Len(nodes) : nodes[x].type = "run" /\ nodes[x].name # None }

\* C23: a RUN line that carries the name of a RUN line above it, whatever
\* lies between them, has a duplicate-name error with its own line number,
\* and parseFile does not succeed on such a file; the named RUNs of a file
\* parsed with success have pairwise distinct names.
C23_RunNamesUnique ==
  pf.pc # "idle" =>
    /\ \A k \in 1..Len(pf.lines) :
         RepeatsRunName(pf.lines, k) =>
           /\ \E e \in 1..Len(pf.errors) :
                /\ pf.errors[e].line = k
                /\ pf.errors[e].message =
                     DuplicateRunName(RunNameAt(pf.lines, k)[1])
           /\ pf.pc = "returned" => ~pf.success
    /\ (pf.pc = "returned" /\ pf.success) =>
         \A x, y \in NamedRunNodes(pf.nodes) :
           x # y => pf.nodes[x].name # pf.nodes[y].name

\* parseFile returned for a file with two RUNs of one name, a TEST between
\* them
C23_Witness ==
  /\ pf.pc = "returned"
  /\ Len(pf.lines) = 3
  /\ RunNameAt(pf.lines, 1) = Some(<<"a">>)
  /\ parseRun(ContentAt(pf.lines, 1), 1, {}).node # None
  /\ TypeAt(pf.lines, 2) = "TEST"
  /\ RepeatsRunName(pf.lines, 3)
  /\ pf.errors = <<[message |-> DuplicateRunName(<<"a">>), line |-> 3]>>

\* C24: a pragma line below a TEST, RUN, ASSERT, ENV or unknown line has the
\* top-of-the-file error with its own line number and makes no node; a
\* pragma line with only pragmas, comments and empty lines above it has no
\* such error; in a file parsed with success every pragma node stands
\* before every TEST, RUN, ASSERT and ENV node.
C24_PragmasAtTop ==
  pf.pc # "idle" =>
    /\ \A k \in 1..Len(pf.lines) :
         TypeAt(pf.lines, k) = "PRAGMA" =>
           LET reported ==
                 \E e \in 1..Len(pf.errors) :
                   /\ pf.errors[e].line = k
                   /\ pf.errors[e].message = TopOfFileError
           IN  IF PragmaBelowStatement(pf.lines, k)
               THEN /\ reported
                    /\ pf.pc = "loop" =>
                         \A x \in 1..Len(pf.nodes) : pf.nodes[x].line # k
               ELSE ~reported
    /\ (pf.pc = "returned" /\ pf.success) =>
         \A x, y \in 1..Len(pf.nodes) :
           (/\ pf.nodes[x].type = "pragma"
            /\ pf.nodes[y].type \in {"test", "run", "assert", "env"}) => x < y

\* parseFile returned for a file with a comment and a pragma at its top and
\* a pragma below a RUN, with the one error on the third line
C24_Witness ==
  /\ pf.pc = "returned"
  /\ Len(pf.lines) = 3
  /\ TypeAt(pf.lines, 1) \in {"COMMENT", "PRAGMA"}
  /\ TypeAt(pf.lines, 2) = "RUN"
  /\ TypeAt(pf.lines, 3) = "PRAGMA"
  /\ pf.errors = <<[message |-> TopOfFileError, line |-> 3]>>

(***************************************************************************)
(* Numbers.  A number of seconds or milliseconds read from a literal is    *)
(* kept as the count of thousandths the literal denotes; parseFloat gives  *)
(* the double nearest to it.  A number of milliseconds that is the result  *)
(* of a multiplication is kept as the milliseconds, the thousandths, and   *)
(* the units in the last place by which the double differs from them.      *)
(***************************************************************************)
RECURSIVE Pow2(_)
Pow2(n) == IF n = 0 THEN 1 ELSE 2 * Pow2(n - 1)

RECURSIVE Pow2Mod125(_)
Pow2Mod125(n) == IF n = 0 THEN 1 ELSE (2 * Pow2Mod125(n - 1)) % 125

\* the largest F with 2^F <= t
RECURSIVE Log2FloorFrom(_, _)
Log2FloorFrom(t, F) == IF Pow2(F + 1) <= t THEN Log2FloorFrom(t, F + 1) ELSE F
Log2Floor(t) == Log2FloorFrom(t, 0)

\* the exponent E of the double nearest to t/1000: 2^E <= t/1000 < 2^(E+1)
RECURSIVE ExponentUp(_, _)
ExponentUp(t, E) == IF 1000 * Pow2(E + 1) <= t THEN ExponentUp(t, E + 1) ELSE E
RECURSIVE ExponentDown(_, _)
ExponentDown(t, n) == IF t * Pow2(n) < 1000 THEN ExponentDown(t, n + 1) ELSE n
SecondsExponent(t) == IF t >= 1000 THEN ExponentUp(t, 0) ELSE 0 - ExponentDown(t, 0)

\* value * 1000 in IEEE-754 binary64 with round-to-nearest-even, for the
\* double nearest to t/1000: the units in the last place by which the
\* product differs from t.  The 53-bit significand of t/1000 is
\* t * 2^(49-E) / 125 rounded to an integer; its remainder r gives the error
\* of the exact product in units of 2^(E-52), which is then rounded to the
\* spacing of the doubles around t.
ProductUlps(t) ==
  IF t = 0 THEN 0
  ELSE
  LET E       == SecondsExponent(t)
      F       == Log2Floor(t)
      r       == ((t % 125) * Pow2Mod125(49 - E)) % 125
      up      == IF 2 * r > 125 THEN 1 ELSE 0
      e       == 8 * (125 * up - r)
      spacing == IF t = Pow2(F) /\ e < 0 THEN Pow2(F - E) \div 2 ELSE Pow2(F - E)
      size    == IF e < 0 THEN 0 - e ELSE e
  IN  IF 2 * size > spacing THEN (IF e > 0 THEN 1 ELSE -1) ELSE 0

\* a number of milliseconds
Ms(ms, frac, ulps) == [ms |-> ms, frac |-> frac, ulps |-> ulps]

\* value * 1000 for a value of t thousandths
TimesThousand(t) == Ms(t, 0, ProductUlps(t))

\* a value of th thousandths, as it is
Plain(th) == Ms(th \div 1000, th % 1000, 0)

\* the sign of a - b
Compare(a, b) ==
  CASE a.ms # b.ms     -> IF a.ms < b.ms THEN -1 ELSE 1
    [] a.frac # b.frac -> IF a.frac < b.frac THEN -1 ELSE 1
    [] a.ulps # b.ulps -> IF a.ulps < b.ulps THEN -1 ELSE 1
    [] OTHER           -> 0

(***************************************************************************)
(* Duration assertions (assertions/timing.ts).                             *)
(***************************************************************************)
\* timing.ts:11-13
durationToMs(duration) ==
  IF duration.unit = <<"s">>
  THEN TimesThousand(duration.value)
  ELSE Plain(duration.value)

\* timing.ts:45-64
evaluateComparison(actual, operator, expected) ==
  LET c == Compare(actual, expected)
  IN  CASE operator = "==" -> c = 0
        [] operator = "!=" -> c # 0
        [] operator = "<"  -> c < 0
        [] operator = "<=" -> c <= 0
        [] operator = ">"  -> c > 0
        [] operator = ">=" -> c >= 0

\* timing.ts:18-23, kept as the call: the text is shown, never compared
formatDuration(ms) == <<"formatDuration(">> \o NumToString(ms) \o <<")">>

\* timing.ts:28-40; durationMs is a difference of two Date.now()
evaluateDurationPredicate(durationMs, predicate) ==
  LET expectedMs == durationToMs(predicate.value)
  IN  [passed   |-> evaluateComparison(Ms(durationMs, 0, 0),
                                       predicate.operator, expectedMs),
       expected |-> <<"duration ", predicate.operator, " ">>
                      \o predicate.value.raw,
       actual   |-> formatDuration(durationMs)]

(***************************************************************************)
(* The session's configuration (shell.ts, createShellConfig).              *)
(***************************************************************************)
DefaultTimeout == Ms(30000, 0, 0)

\* /^(\d+(?:\.\d+)?)(ms|s)$/: the number and the unit matched, or none
TimeoutMatch(value) ==
  LET int      == LeadingDigits(value)
      afterInt == SubstringFrom(value, Len(int))
      frac     == IF afterInt # <<>> /\ Head(afterInt) = "."
                  THEN LeadingDigits(Tail(afterInt)) ELSE <<>>
      number   == IF frac = <<>> THEN int ELSE int \o <<".">> \o frac
      unit     == SubstringFrom(value, Len(number))
  IN  IF int # <<>> /\ unit \in {<<"m", "s">>, <<"s">>}
      THEN Some([number |-> number, unit |-> unit])
      ELSE None

\* shell.ts createShellConfig, case "timeout": the timeout after one pragma
TimeoutAfter(timeout, pragma) ==
  LET match == TimeoutMatch(pragma.value)
      value == ParseFloat(match[1].number)[1]
  IN  IF pragma.pragmaType = "timeout" /\ match # None
      THEN IF match[1].unit = <<"s">> THEN TimesThousand(value) ELSE Plain(value)
      ELSE timeout

\* shell.ts createShellConfig: the timeout of the configuration
RECURSIVE TimeoutFrom(_, _)
TimeoutFrom(timeout, pragmas) ==
  IF pragmas = <<>> THEN timeout
  ELSE TimeoutFrom(TimeoutAfter(timeout, Head(pragmas)), Tail(pragmas))

createShellConfig(pragmas) == [timeout |-> TimeoutFrom(DefaultTimeout, pragmas)]

(***************************************************************************)
(* Output assertions (assertions/output.ts) and file assertions            *)
(* (assertions/filesystem.ts).  A result is the record the evaluator       *)
(* returns, or [thrown |-> message] when it throws.                        *)
(***************************************************************************)
CR == "\r"

\* str.replace(/\r\n/g, "\n")
RECURSIVE ReplaceCRLF(_)
ReplaceCRLF(str) ==
  IF str = <<>> THEN <<>>
  ELSE IF Len(str) >= 2 /\ str[1] = CR /\ str[2] = NL
  THEN <<NL>> \o ReplaceCRLF(SubstringFrom(str, 2))
  ELSE <<Head(str)>> \o ReplaceCRLF(Tail(str))

\* lines.join("\n")
RECURSIVE JoinLines(_)
JoinLines(lines) ==
  IF Len(lines) = 0 THEN <<>>
  ELSE IF Len(lines) = 1 THEN lines[1]
  ELSE lines[1] \o <<NL>> \o JoinLines(Tail(lines))

normalizeNothing(str) == str
\* output.ts:133-140
normalizeWhitespace(str) ==
  LET lines == Split(ReplaceCRLF(str), NL)
  IN  Trim(JoinLines([i \in 1..Len(lines) |-> TrimEnd(lines[i])]))

\* new RegExp(pattern) throws: of the patterns drawn, the one with a group
\* left open
RegExpThrows(pattern) == \E i \in 1..Len(pattern) : pattern[i] = "("

\* regex.test(text) for the patterns drawn, which are made of letters
RegExpTest(pattern, text) == Includes(text, pattern)

\* output.ts:67-78
evaluateContains(output, value) ==
  [passed   |-> Includes(output, value.value),
   expected |-> <<"to contain ">> \o value.raw,
   actual   |-> output]

evaluateMatchesUncaught(output, value) ==
  IF RegExpThrows(value.pattern)
  THEN [thrown |-> <<"SyntaxError">>]
  ELSE [passed   |-> RegExpTest(value.pattern, output),
        expected |-> <<"to match ">> \o value.raw,
        actual   |-> output]
\* output.ts:84-104
evaluateMatches(output, value) ==
  IF RegExpThrows(value.pattern)
  THEN [passed   |-> FALSE,
        expected |-> <<"to match ">> \o value.raw,
        actual   |-> output,
        error    |-> <<"Invalid regex: ", "SyntaxError">>]
  ELSE [passed   |-> RegExpTest(value.pattern, output),
        expected |-> <<"to match ">> \o value.raw,
        actual   |-> output]

\* output.ts:109-126
evaluateEquals(output, operator, value) ==
  LET isEqual == normalizeWhitespace(output) = normalizeWhitespace(value.value)
  IN  [passed   |-> IF operator = "==" THEN isEqual ELSE ~isEqual,
       expected |-> <<operator, " ">> \o value.raw,
       actual   |-> output]

\* output.ts:52-64
evaluateOutputPredicate(output, predicate) ==
  CASE predicate.type = "contains" -> evaluateContains(output, predicate.value)
    [] predicate.type = "matches"  -> evaluateMatches(output, predicate.value)
    [] predicate.type = "equals"   ->
         evaluateEquals(output, predicate.operator, predicate.value)

\* what lies at the path of a file assertion: nothing, a file whose name
\* differs in casing, a file that cannot be read, or a file with content
MissingFile == [kind |-> "missing"]
OtherCasing == [kind |-> "casing", actualName |-> <<"A">>]
Unreadable == [kind |-> "unreadable"]
FileWith(content) == [kind |-> "file", content |-> content]

\* part_014:32-52
checkFileExists(file) ==
  IF file.kind = "missing"
  THEN [exists |-> FALSE, casingMatch |-> TRUE]
  ELSE IF file.kind = "casing"
  THEN [exists |-> TRUE, casingMatch |-> FALSE, actualName |-> file.actualName]
  ELSE [exists |-> TRUE, casingMatch |-> TRUE]

CaseMismatch(pathRaw, actualName) ==
  <<"Case mismatch: expected ">> \o pathRaw \o <<" but found ">> \o actualName

\* part_014:54-75
evaluateFileExists(file, pathRaw) ==
  LET check == checkFileExists(file)
  IN  IF check.exists /\ ~check.casingMatch
      THEN [passed   |-> FALSE,
            expected |-> <<"file ">> \o pathRaw \o <<" to exist">>,
            actual   |-> <<"file exists but with different casing: ">>
                           \o check.actualName,
            error    |-> CaseMismatch(pathRaw, check.actualName)]
      ELSE [passed   |-> check.exists,
            expected |-> <<"file ">> \o pathRaw \o <<" to exist">>,
            actual   |-> IF check.exists THEN <<"file exists">>
                         ELSE <<"file does not exist">>]

\* part_014:77-120: the content, or the result that says why there is none
readFileContent(file, pathRaw) ==
  LET check == checkFileExists(file)
  IN  IF ~check.exists
      THEN [content |-> <<>>,
            error |-> Some([passed   |-> FALSE,
                            expected |-> <<"file ">> \o pathRaw \o <<" to exist">>,
                            actual   |-> <<"file does not exist">>])]
      ELSE IF ~check.casingMatch
      THEN [content |-> <<>>,
            error |-> Some([passed   |-> FALSE,
                            expected |-> <<"file ">> \o pathRaw
                                           \o <<" to exist with exact casing">>,
                            actual   |-> <<"file exists but with different casing: ">>
                                           \o check.actualName,
                            error    |-> CaseMismatch(pathRaw, check.actualName)])]
      ELSE IF file.kind = "unreadable"
      THEN [content |-> <<>>,
            error |-> Some([passed   |-> FALSE,
                            expected |-> <<"to read file ">> \o pathRaw,
                            actual   |-> <<"failed to read file: ", "EACCES">>])]
      ELSE [content |-> file.content, error |-> None]

\* part_014:122-137
evaluateFileContains(file, value, pathRaw) ==
  LET read == readFileContent(file, pathRaw)
  IN  IF read.error # None THEN read.error[1]
      ELSE [passed   |-> Includes(read.content, value.value),
            expected |-> <<"file ">> \o pathRaw \o <<" to contain ">> \o value.raw,
            actual   |-> read.content]

\* part_014:139-164
evaluateFileMatches(file, value, pathRaw) ==
  LET read == readFileContent(file, pathRaw)
  IN  IF read.error # None THEN read.error[1]
      ELSE IF RegExpThrows(value.pattern)
      THEN [passed   |-> FALSE,
            expected |-> <<"file ">> \o pathRaw \o <<" to match ">> \o value.raw,
            actual   |-> read.content,
            error    |-> <<"Invalid regex: ", "SyntaxError">>]
      ELSE [passed   |-> RegExpTest(value.pattern, read.content),
            expected |-> <<"file ">> \o pathRaw \o <<" to match ">> \o value.raw,
            actual   |-> read.content]

\* part_014:166-173
normalizeFileContent(content) ==
  LET lines == Split(ReplaceCRLF(content), NL)
  IN  Trim(JoinLines([i \in 1..Len(lines) |-> TrimEnd(lines[i])]))

\* part_014:175-196
evaluateFileEquals(file, operator, value, pathRaw) ==
  LET read    == readFileContent(file, pathRaw)
      isEqual == normalizeFileContent(read.content)
                   = normalizeFileContent(value.value)
  IN  IF read.error # None THEN read.error[1]
      ELSE [passed   |-> IF operator = "==" THEN isEqual ELSE ~isEqual,
            expected |-> <<"file ">> \o pathRaw \o <<" ", operator, " ">>
                           \o value.raw,
            actual   |-> read.content]

\* part_014:6-30
evaluateFilePredicate(file, filePath, predicate) ==
  CASE predicate.type = "exists" -> evaluateFileExists(file, filePath.raw)
    [] predicate.type = "contains" ->
         evaluateFileContains(file, predicate.value, filePath.raw)
    [] predicate.type = "matches" ->
         evaluateFileMatches(file, predicate.value, filePath.raw)
    [] predicate.type = "equals" ->
         evaluateFileEquals(file, predicate.operator, predicate.value,
                            filePath.raw)

(***************************************************************************)
(* The evaluation specification: one call of one of the functions above,   *)
(* on any of the inputs below.                                             *)
(***************************************************************************)
\* length of the value of a timeout pragma
MaxValueLen == 4
\* length of the text a string literal is read from
MaxLiteralLen == 4
\* the largest threshold of a duration assertion, in milliseconds
MaxThresholdMs == 1003
\* length of an output or of the content of a file
MaxTextLen == 5

SeqsUpTo(S, n) == UNION { [1..k -> S] : k \in 0..n }

TimeoutChars == {"5", ".", "s", "m", " "}
TimeoutValues == SeqsUpTo(TimeoutChars, MaxValueLen)

LiteralChars == {DQ, SQ, BS, "n", "t", "a"}
LiteralTexts ==
  { s \in SeqsUpTo(LiteralChars, MaxLiteralLen) : s # <<>> /\ s[1] \in {DQ, SQ} }

Operators == {"==", "!=", "<", "<=", ">", ">="}
Thresholds == (1000..MaxThresholdMs) \cup {1500}

TextChars == {"a", " ", CR, NL}
Texts == SeqsUpTo(TextChars, MaxTextLen)

\* the literal a text is parsed to (ast.ts StringLiteral)
Literal(raw) ==
  LET r == parseStringLiteral(raw)[1]
  IN  [value |-> r.value, raw |-> r.raw, quoteType |-> r.quoteType]

Values == { Literal(<<DQ, "a", BS, "n", "a", DQ>>), Literal(<<SQ, "a", SQ>>) }

Regex(pattern) ==
  [pattern |-> pattern, flags |-> <<>>, raw |-> <<"/">> \o pattern \o <<"/">>]

ContentPredicates ==
  { [type |-> "contains", value |-> v] : v \in Values }
    \cup { [type |-> "equals", operator |-> op, value |-> v] :
             op \in {"==", "!="}, v \in Values }
    \cup { [type |-> "matches", value |-> Regex(p)] : p \in {<<"a">>, <<"(">>} }

FilePredicates == ContentPredicates \cup {[type |-> "exists"]}

FilesAtPath ==
  {MissingFile, OtherCasing, Unreadable} \cup { FileWith(t) : t \in Texts }

FilePath == Literal(<<DQ, "a", DQ>>)

\* the lines parseSentinel is given: fields joined by the unit separator;
\* the first is the prefix, the prefix with more after it, or another
\* text, the numeric fields are integers or not, and there are three, four
\* or five fields
RECURSIVE JoinFields(_)
JoinFields(fields) ==
  IF Len(fields) = 1
  THEN fields[1]
  ELSE fields[1] \o <<UNIT_SEPARATOR>> \o JoinFields(Tail(fields))
FirstFields == {SENTINEL_PREFIX, SENTINEL_PREFIX \o <<"x">>, <<"x">>, <<>>}
RunIdFields == {<<>>, <<"a">>}
NumberFields ==
  {<<>>, <<"0">>, <<"1", "2">>, <<"-", "1">>, <<"2", "x">>, <<"x">>,
   <<"1", ".", "5">>}
SentinelFields ==
  {<<p, r, e, t>> : p \in FirstFields, r \in RunIdFields,
                    e \in NumberFields, t \in NumberFields}
    \cup {<<p, <<"a">>, <<"0">> >> : p \in FirstFields}
    \cup {<<p, <<"a">>, <<"0">>, <<"7">>, <<"0">> >> : p \in FirstFields}
SentinelLines == {JoinFields(fields) : fields \in SentinelFields}

\* two RUN statements of one file as executeNodes hands them to
\* session.run(): each with the name of the TEST block it is in, if any,
\* its own name, if any, and the session's run counter.  The test names
\* are among those parseTest accepts (/^[a-zA-Z0-9 _-]+$/), the RUN names
\* among those parseRun accepts (/^[a-zA-Z_][a-zA-Z0-9_-]*/); a RUN name is
\* used once in a file, the counter grows with every RUN, and a RUN outside
\* every block comes before the first TEST.
MaxRunIndex == 3
IdTestNames == {Undefined, <<"t">>, <<"a">>, <<"a", " ", "b">>, <<"a", "-", "b">>}
IdRunNames == {Undefined, <<"a">>, <<"c">>, <<"b", "-", "c">>, <<"t", "-", "2">>}
RunStatement(testName, name, runIndex) ==
  [testName |-> testName, name |-> name, runIndex |-> runIndex]
RunStatementPairs ==
  {[first |-> RunStatement(t1, n1, i1), second |-> RunStatement(t2, n2, i2)] :
     t1 \in IdTestNames, t2 \in IdTestNames,
     n1 \in IdRunNames, n2 \in IdRunNames,
     i1 \in 1..MaxRunIndex, i2 \in 1..MaxRunIndex}
RunPairs ==
  {p \in RunStatementPairs :
     /\ p.first.runIndex < p.second.runIndex
     /\ p.first.name # Undefined => p.first.name # p.second.name
     /\ p.second.testName = Undefined => p.first.testName = Undefined}

\* shell.ts:85-89: the directory of the session's artifacts
ArtifactDir == <<".hone/runs/", "ts", "-", "f">>

\* shell.ts:279: join(this.artifactDir, `${runId}-stderr.txt`)
StderrPath(runId) == ArtifactDir \o <<"/">> \o runId \o <<"-stderr.txt">>

Call(fn, in) == [pc |-> "called", fn |-> fn, in |-> in]
Returned(out) == [pc |-> "returned", fn |-> ev.fn, in |-> ev.in, out |-> out]

EvalInit ==
  /\ ExecInit /\ SentIdle /\ cwdq = [pc |-> "idle"]
  /\ pf = [pc |-> "idle"]
  /\ \/ ev = Call("timeout", [pragma |-> FALSE, value |-> <<>>])
     \/ \E v \in TimeoutValues : ev = Call("timeout", [pragma |-> TRUE, value |-> v])
     \/ \E text \in LiteralTexts : ev = Call("literal", [text |-> text])
     \/ \E op \in Operators, t \in Thresholds, d \in -1..1 :
          ev = Call("duration", [operator |-> op, threshold |-> t,
                                 durationMs |-> t + d])
     \/ \E output \in Texts, predicate \in ContentPredicates :
          ev = Call("output", [output |-> output, predicate |-> predicate])
     \/ \E file \in FilesAtPath, predicate \in FilePredicates :
          ev = Call("file", [file |-> file, predicate |-> predicate])
     \/ \E line \in SentinelLines : ev = Call("sentinel", [line |-> line])
     \/ \E pair \in RunPairs : ev = Call("runIds", pair)

evalOther ==
  /\ UNCHANGED execVars
  /\ UNCHANGED <<sBuffer, sExpected, sResult, sPolled, sAppends, cwdq, pf>>

\* a file whose only pragma, if it has one, is `#! timeout: <value>' is
\* parsed and, when the parser accepts it, the session is configured
\* (index.ts:183-200, index.ts:197 of the runner, createShellConfig)
EvalTimeout ==
  /\ evalOther
  /\ ev.pc = "called" /\ ev.fn = "timeout"
  /\ LET line == <<"#", "!", " ", "timeout", ":", " ">> \o ev.in.value
         stmt == IF ev.in.pragma
                 THEN parsePragma(classifyLine(line).content, 1)
                 ELSE [node |-> None, errors |-> <<>>, warnings |-> <<>>]
     IN  ev' = Returned([errors  |-> stmt.errors,
                         pragmas |-> stmt.node,
                         timeout |-> IF hasErrors(stmt.errors) THEN None
                                     ELSE Some(createShellConfig(stmt.node).timeout)])

\* lexer.ts:72-135
EvalLiteral ==
  /\ evalOther
  /\ ev.pc = "called" /\ ev.fn = "literal"
  /\ ev' = Returned(parseStringLiteral(ev.in.text))

Pad3(n) ==
  IF n < 10 THEN <<"0", "0">> \o NatToString(n)
  ELSE IF n < 100 THEN <<"0">> \o NatToString(n)
  ELSE NatToString(n)

\* a threshold of t milliseconds as it is written in each unit
SecondsText(t) == NatToString(t \div 1000) \o <<".">> \o Pad3(t % 1000) \o <<"s">>
MillisText(t) == NatToString(t) \o <<"m", "s">>

\* index.ts:553-584 and timing.ts:28-40: the assertion `duration <op>
\* <threshold>' is parsed and evaluated, with the threshold in each unit
EvalDuration ==
  /\ evalOther
  /\ ev.pc = "called" /\ ev.fn = "duration"
  /\ LET inSeconds == parseDuration(SecondsText(ev.in.threshold))[1]
         inMillis  == parseDuration(MillisText(ev.in.threshold))[1]
         predicate(d) == [operator |-> ev.in.operator, value |-> d]
     IN  ev' = Returned(
           [seconds |-> evaluateDurationPredicate(ev.in.durationMs,
                                                  predicate(inSeconds)),
            millis  |-> evaluateDurationPredicate(ev.in.durationMs,
                                                  predicate(inMillis))])

\* output.ts:52-64
EvalOutput ==
  /\ evalOther
  /\ ev.pc = "called" /\ ev.fn = "output"
  /\ ev' = Returned(evaluateOutputPredicate(ev.in.output, ev.in.predicate))

\* part_014:6-30
EvalFile ==
  /\ evalOther
  /\ ev.pc = "called" /\ ev.fn = "file"
  /\ ev' = Returned(evaluateFilePredicate(ev.in.file, FilePath, ev.in.predicate))

\* sentinel.ts:73-103
EvalSentinel ==
  /\ evalOther
  /\ ev.pc = "called" /\ ev.fn = "sentinel"
  /\ ev' = Returned(parseSentinel(ev.in.line))

\* shell.ts:270-279, for the two RUNs
RunIdAndPath(run) ==
  LET runId == generateRunId(<<"f">>, run.testName, run.name, run.runIndex)
  IN  [runId |-> runId, stderrPath |-> StderrPath(runId)]
EvalRunIds ==
  /\ evalOther
  /\ ev.pc = "called" /\ ev.fn = "runIds"
  /\ ev' = Returned([first  |-> RunIdAndPath(ev.in.first),
                     second |-> RunIdAndPath(ev.in.second)])

EvalNext ==
  \/ EvalTimeout \/ EvalLiteral \/ EvalDuration \/ EvalOutput \/ EvalFile
  \/ EvalSentinel \/ EvalRunIds

SpecEval == EvalInit /\ [][EvalNext]_vars

(***************************************************************************)
(* Properties of the functions.                                            *)
(***************************************************************************)
\* the duration a parsed value denotes, in milliseconds
DenotedMs(duration) ==
  IF duration.unit = <<"s">>
  THEN Ms(duration.value, 0, 0)
  ELSE Plain(duration.value)

\* C25: a file without a timeout pragma runs with the default of 30000 ms;
\* a timeout pragma is either rejected by the parser with an error, or the
\* session's timeout is exactly the duration the parser read from it.
C25_TimeoutNeverDefaulted ==
  (ev.pc = "returned" /\ ev.fn = "timeout") =>
     IF ev.in.pragma
     THEN \/ hasErrors(ev.out.errors)
          \/ ev.out.timeout =
               Some(DenotedMs(parseDuration(Trim(ev.in.value))[1]))
     ELSE ev.out.timeout = Some(DefaultTimeout)

\* the positions from i on at which the text has its quote character
\* again
ClosingQuotes(text, i) == { j \in i..Len(text) : text[j] = text[1] }

\* the value of the body of a double-quoted literal, escapes replaced
RECURSIVE Unescaped(_)
Unescaped(body) ==
  IF body = <<>> THEN <<>>
  ELSE IF Head(body) = BS /\ Len(body) >= 2
  THEN (CASE body[2] = "n" -> <<NL>>
          [] body[2] = "t" -> <<TAB>>
          [] body[2] = DQ  -> <<DQ>>
          [] body[2] = BS  -> <<BS>>
          [] OTHER         -> <<BS, body[2]>>) \o Unescaped(SubstringFrom(body, 2))
  ELSE <<Head(body)>> \o Unescaped(Tail(body))

\* C26: a double-quoted literal that is parsed has as its value the
\* characters between its quotes with \n, \t, \" and \\ replaced by a
\* newline, a tab, a quote and a backslash; a single-quoted literal ends at
\* the first quote after the opening one, whatever stands before it, and
\* its value is exactly the characters in between.
C26_StringLiterals ==
  (ev.pc = "returned" /\ ev.fn = "literal") =>
     LET text == ev.in.text
     IN  IF text[1] = DQ
         THEN ev.out # None =>
                ev.out[1].value =
                  Unescaped(SubSeq(text, 2, ev.out[1].endIndex - 1))
         ELSE IF ClosingQuotes(text, 2) = {}
         THEN ev.out = None
         ELSE LET close == CHOOSE j \in ClosingQuotes(text, 2) :
                             \A k \in ClosingQuotes(text, 2) : j <= k
              IN  /\ ev.out # None
                  /\ ev.out[1].value = SubSeq(text, 2, close - 1)
                  /\ ev.out[1].endIndex = close

\* C27: a duration assertion passes for a measured duration with its
\* threshold written in seconds exactly when it passes with the same
\* threshold written in milliseconds, whatever the operator.
C27_UnitConsistent ==
  (ev.pc = "returned" /\ ev.fn = "duration") =>
     ev.out.seconds.passed = ev.out.millis.passed

\* the characters of s at the positions in idx, in their order
Kept(s, idx) ==
  [n \in 1..Cardinality(idx) |->
     s[CHOOSE i \in idx : Cardinality({j \in idx : j <= i}) = n]]

\* s with every carriage return that stands before a line feed removed
WithoutCRLF(s) ==
  Kept(s, { i \in 1..Len(s) : ~(s[i] = CR /\ i < Len(s) /\ s[i + 1] = NL) })

\* position i of s holds white space with nothing but white space between
\* it and the end of its line
TrailsLine(s, i) ==
  /\ s[i] \in WhiteSpace \ {NL}
  /\ \A j \in i..Len(s) :
       (\A k \in i..j : s[k] # NL) => s[j] \in WhiteSpace

\* position i of s has nothing but white space before it, or after it
AtEdge(s, i) ==
  \/ \A j \in 1..i : s[j] \in WhiteSpace
  \/ \A j \in i..Len(s) : s[j] \in WhiteSpace

\* the normal form of a text: line endings LF, no white space at the end of
\* a line, none at either end of the text
Normalized(s) ==
  LET lf    == WithoutCRLF(s)
      lines == Kept(lf, { i \in 1..Len(lf) : ~TrailsLine(lf, i) })
  IN  Kept(lines, { i \in 1..Len(lines) : ~AtEdge(lines, i) })

\* the text an output assertion or a file assertion compares, when there is
\* one
ComparedText ==
  IF ev.fn = "output" THEN Some(ev.in.output)
  ELSE IF ev.fn = "file" /\ ev.in.file.kind = "file" THEN Some(ev.in.file.content)
  ELSE None

\* C28: an == on an output or on the content of a file passes exactly when
\* the two sides have the same normal form, and a != passes exactly when
\* they do not.
C28_EqualsNormalized ==
  (/\ ev.pc = "returned"
   /\ ComparedText # None
   /\ ev.in.predicate.type = "equals") =>
     LET same == Normalized(ComparedText[1])
                   = Normalized(ev.in.predicate.value.value)
     IN  ev.out.passed = IF ev.in.predicate.operator = "==" THEN same ELSE ~same

\* the content `a \r\na' of a file was compared with == to the literal
\* "a\na", and the assertion passed
C28_Witness ==
  /\ ev.pc = "returned"
  /\ ev.fn = "file"
  /\ ev.in.file = FileWith(<<"a", " ", CR, NL, "a">>)
  /\ ev.in.predicate.type = "equals"
  /\ ev.in.predicate.operator = "=="
  /\ ev.in.predicate.value.value = <<"a", NL, "a">>
  /\ ev.out.passed

\* C29: `file ... contains' passes exactly when the content of the file,
\* with its line endings made LF and the white space at the end of its
\* lines removed as for == and !=, contains the value.
C29_ContainsNormalized ==
  (/\ ev.pc = "returned"
   /\ ev.fn = "file"
   /\ ev.in.file.kind = "file"
   /\ ev.in.predicate.type = "contains") =>
     ev.out.passed =
       Includes(Normalized(ev.in.file.content), ev.in.predicate.value.value)

ResultFields == {"passed", "expected", "actual"}

\* C30: an output or file evaluator returns a record of passed, expected,
\* actual and possibly error, whatever its input, and throws nothing; error
\* is set only with passed false; a file that is missing, of another casing
\* or unreadable gives passed false for a predicate on its content, a
\* missing file for exists as well; an invalid regular expression gives
\* passed false with error set; a text that does not contain the value
\* gives passed false.
C30_EvaluatorsReturn ==
  (ev.pc = "returned" /\ ev.fn \in {"output", "file"}) =>
     /\ DOMAIN ev.out \in {ResultFields, ResultFields \cup {"error"}}
     /\ ev.out.passed \in BOOLEAN
     /\ "error" \in DOMAIN ev.out => ~ev.out.passed
     /\ (/\ ComparedText = None
         /\ \/ ev.in.predicate.type # "exists"
            \/ ev.in.file.kind \in {"missing", "casing"}) => ~ev.out.passed
     /\ (/\ ComparedText # None
         /\ ev.in.predicate.type = "matches"
         /\ ev.in.predicate.value.pattern = <<"(">>) =>
           /\ ~ev.out.passed
           /\ "error" \in DOMAIN ev.out
     /\ (/\ ComparedText # None
         /\ ev.in.predicate.type = "contains"
         /\ ~Includes(ComparedText[1], ev.in.predicate.value.value)) =>
           ~ev.out.passed

\* an output was matched against a regular expression that does not
\* compile, and the evaluator returned
C30_Witness ==
  /\ ev.pc = "returned"
  /\ ev.fn = "output"
  /\ ev.in.predicate.type = "matches"
  /\ ev.in.predicate.value.pattern = <<"(">>
  /\ ev.out.error # <<>>


(***************************************************************************)
(* The order of a file's statements (index.ts:274-357, shell.ts:265-308).  *)
(***************************************************************************)
\* the wrappers written to the shell of file f and not yet executed
WrappersWaiting(f) ==
  {k \in DOMAIN shell[f].stdin : shell[f].stdin[k].op = "wrapper"}

\* this step writes the wrapper of a RUN of file f
WritesWrapper(f) == hist'.runsWritten[f] = hist.runsWritten[f] + 1

\* this step takes the next node of the file, an ASSERT
TakesAssert ==
  /\ ex.pc = "loop"
  /\ ex'.file = ex.file
  /\ ex'.nodeCount = ex.nodeCount + 1
  /\ ex'.node.type = "assert"

\* C31: the RUNs of a file are never pipelined: when the wrapper of a RUN
\* is written, the shell has executed every wrapper written before, is not
\* busy with a command, and executeNodes holds the result of the RUN
\* written last before; an ASSERT is evaluated in the step that reaches
\* it, which writes nothing to the shell, so it is evaluated before the
\* RUN after it is written.
C31_RunsInSourceOrder ==
  [][/\ \A f \in Files :
          WritesWrapper(f) =>
            /\ ex.file = f
            /\ ex.pc \in {"loop", "run"}
            /\ WrappersWaiting(f) = {}
            /\ ~shell[f].busy
            /\ hist.lastRun[f] # None =>
                 /\ ex.lastRunResult # None
                 /\ ex.lastRunResult[1].runId = hist.lastRun[f][1].runId
     /\ TakesAssert =>
          /\ hist'.assertsEvaluated[ex.file] = hist.assertsEvaluated[ex.file] + 1
          /\ hist'.runsWritten = hist.runsWritten
          /\ shell' = shell]_vars

\* a RUN, an ASSERT that passed and a second RUN, whose wrapper is written
C31_Witness ==
  /\ ex.pc = "waitForSentinel"
  /\ ex.nodeCount = 3
  /\ hist.runsWritten[ex.file] = 2
  /\ hist.assertsPassed[ex.file] = 1


(***************************************************************************)
(* The output recorded for a RUN (shell.ts:254-260, 288-307, 313-336).     *)
(***************************************************************************)
\* sentinel.ts:170-172: one newline at the end of the output is dropped
DropLastNewline(output) ==
  IF output # <<>> /\ output[Len(output)] = NL
  THEN SubSeq(output, 1, Len(output) - 1)
  ELSE output

\* executeNodes holds the result of the RUN of file f written last
HoldsLastRun(f) ==
  /\ ex.file = f
  /\ ex.lastRunResult # None
  /\ hist.lastRun[f] # None
  /\ ex.lastRunResult[1].runId = hist.lastRun[f][1].runId

\* C32: the stdout recorded for a RUN consists only of what its command
\* wrote: nothing that the readiness handshake, a flush or an earlier RUN
\* made the shell write is part of it.
C32_OutputOnlyOfOwnCommand ==
  \A f \in Files :
    HoldsLastRun(f) =>
      ex.lastRunResult[1].stdoutRaw =
        DropLastNewline(CommandOutput(shell[f], hist.lastRun[f][1].command))


(***************************************************************************)
(* What a poll of waitForSentinel takes from the buffer (sentinel.ts:      *)
(* 137-181, shell.ts:318-331).                                             *)
(***************************************************************************)
\* this step is an iteration of waitForSentinel's loop
IsPoll == sAppends' = sAppends /\ sResult'.polled

\* the part of the buffer between the output (and the newline trimmed from
\* it, nl) and the remaining text
LineBetween(buffer, r, nl) ==
  SubSeq(buffer, Len(r.output) + Len(nl) + 1, Len(buffer) - Len(r.remaining))

\* buffer = output + nl + sentinel line + newline + remaining, where nl is
\* nothing or one newline and the sentinel line, which holds no newline,
\* is the one the result's sentinel was parsed from
Decomposes(buffer, r) ==
  \E nl \in {<<>>, <<NL>>} :
    LET lineNL == LineBetween(buffer, r, nl)
        line   == SubSeq(lineNL, 1, Len(lineNL) - 1)
    IN  /\ buffer = r.output \o nl \o lineNL \o r.remaining
        /\ lineNL # <<>>
        /\ lineNL[Len(lineNL)] = NL
        /\ ~Includes(line, <<NL>>)
        /\ StartsWith(line, SENTINEL_PREFIX)
        /\ ~Includes(r.output \o nl, SENTINEL_PREFIX)
        /\ parseSentinel(Trim(line)) = r.sentinel
        /\ r.sentinel # Null

\* C33: when a poll finds the sentinel, the buffer it inspected is the
\* output, at most one newline trimmed from the output's end, the sentinel
\* line, its newline and the remaining text, in this order, and the
\* remaining text becomes the session's buffer.
C33_FoundDecomposesBuffer ==
  [][(IsPoll /\ sResult'.found) =>
       /\ sPolled' = sBuffer
       /\ Decomposes(sBuffer, sResult')
       /\ sBuffer' = sResult'.remaining]_vars

\* a sentinel found between a line of output and further text
C33_Witness ==
  /\ sResult.polled
  /\ sResult.found
  /\ sResult.output = <<"x">>
  /\ sPolled[2] = NL
  /\ sResult.remaining # <<>>
  /\ sBuffer = sResult.remaining


\* the buffer holds the prefix and no newline after its first occurrence
PrefixWithoutNewline(buffer) ==
  /\ Includes(buffer, SENTINEL_PREFIX)
  /\ ~Includes(SubstringFrom(buffer, IndexOf(buffer, SENTINEL_PREFIX)), <<NL>>)

\* C34: a poll that does not find the sentinel takes nothing from the
\* buffer and reports the whole buffer as output; a buffer without the
\* prefix, or with no newline after the prefix, is such a poll.
C34_NotFoundLeavesBuffer ==
  [][IsPoll =>
       /\ ~sResult'.found =>
            /\ sBuffer' = sBuffer
            /\ sResult'.output = sBuffer
            /\ sResult'.sentinel = Null
       /\ (~Includes(sBuffer, SENTINEL_PREFIX) \/ PrefixWithoutNewline(sBuffer)) =>
            ~sResult'.found]_vars

\* a poll of a buffer that holds the sentinel without its newline
C34_Witness ==
  /\ sResult.polled
  /\ ~sResult.found
  /\ PrefixWithoutNewline(sPolled)
  /\ Includes(sPolled, <<UNIT_SEPARATOR>>)
  /\ sResult.output = sPolled
  /\ sBuffer = sPolled


(***************************************************************************)
(* parseSentinel (sentinel.ts:73-103).                                     *)
(***************************************************************************)
\* the text is an integer: an optional sign and digits, nothing else
IsInteger(text) ==
  LET body == IF text # <<>> /\ Head(text) \in {"-", "+"} THEN Tail(text) ELSE text
  IN  /\ body # <<>>
      /\ \A k \in DOMAIN body : IsDigit(body[k])

\* C35: parseSentinel returns sentinel data only for a line that starts
\* with the prefix, has exactly four fields between unit separators, and
\* whose exit code and timestamp fields are integers.
C35_SentinelParsedCleanly ==
  (ev.pc = "returned" /\ ev.fn = "sentinel" /\ ev.out # Null) =>
    LET parts == Split(ev.in.line, UNIT_SEPARATOR)
    IN  /\ StartsWith(ev.in.line, SENTINEL_PREFIX)
        /\ Len(parts) = 4
        /\ IsInteger(parts[3])
        /\ IsInteger(parts[4])


(***************************************************************************)
(* The buffer between the reader task and the waiter (shell.ts:133-161,    *)
(* 313-336).                                                               *)
(***************************************************************************)
\* what this step takes from the front of the buffer
Taken == SubSeq(sBuffer, 1, Len(sBuffer) - Len(sBuffer'))

\* the reader's step: a chunk is added at the end, nothing else changes
ReaderStep ==
  /\ sAppends' = sAppends + 1
  /\ \E chunk \in Chunks : sBuffer' = sBuffer \o chunk
  /\ sResult' = sResult
  /\ sPolled' = sPolled

\* the waiter's step: it inspects the buffer as it is now and takes
\* nothing, or, with a find, the front of the buffer up to the newline
\* of the first sentinel line
WaiterStep ==
  /\ sAppends' = sAppends
  /\ sPolled' = sBuffer
  /\ Len(sBuffer') <= Len(sBuffer)
  /\ sBuffer = Taken \o sBuffer'
  /\ sResult'.found <=> Taken # <<>>
  /\ Taken # <<>> =>
       LET first == IndexOf(Taken, SENTINEL_PREFIX)
       IN  /\ first # -1
           /\ IndexOf(SubstringFrom(Taken, first), <<NL>>) = Len(Taken) - first - 1

\* C36: the reader only appends and the waiter inspects and replaces the
\* buffer in one step, so every step of the two is either an append at
\* the end or the removal of the front up to a sentinel's newline: what
\* the reader appended stays in the buffer, once and in order, until a
\* find takes it.
C36_NoByteLostOrDuplicated == [][ReaderStep \/ WaiterStep]_vars

\* the reader has appended after a find that emptied the buffer
C36_Witness ==
  /\ sResult.polled
  /\ sResult.found
  /\ sResult.remaining = <<>>
  /\ sBuffer # <<>>
  /\ sAppends = 2


(***************************************************************************)
(* Run ids (sentinel.ts:25-45, shell.ts:270-279).                          *)
(***************************************************************************)
\* C37: two RUN statements of one file get two runIds and two stderr
\* paths, whatever the names of their TEST blocks and their own names.
C37_RunIdsDistinct ==
  (ev.pc = "returned" /\ ev.fn = "runIds") =>
    /\ ev.out.first.runId # ev.out.second.runId
    /\ ev.out.first.stderrPath # ev.out.second.stderrPath


(***************************************************************************)
(* The file-level environment (shell.ts:101-128, 229-249, 411-456).        *)
(***************************************************************************)
\* the shell of file f is about to execute the wrapper of a RUN
AboutToRun(f) ==
  /\ shell[f].alive
  /\ shell[f].stdin # <<>>
  /\ Head(shell[f].stdin).op = "wrapper"

\* C38: a variable of a `#! env:' pragma has its pragma value when the
\* shell executes a RUN, unless the block of the RUN has an ENV statement
\* for it; a block after one that overrode it sees the pragma value again.
C38_PragmaEnvStable ==
  \A f \in Files :
    \A key \in PragmaEnv(f) :
      (AboutToRun(f) /\ key \notin hist.declared[f]) =>
        key \in shell[f].pragmaEnv


(***************************************************************************)
(* The reporter's file-level calls (index.ts:175-248, reporter.ts:40-49).  *)
(***************************************************************************)
\* the positions of the calls `name' made for file f
CallsOf(name, f) == {k \in DOMAIN events : events[k] = <<name, f>>}

\* the positions of the onSummary calls
Summaries == {k \in DOMAIN events : events[k][1] = "onSummary"}

\* C39: for every file that was executed and failed, onFailure is called
\* exactly once, after the file's onFileStart and before onSummary.
C39_FailureReportedOnce ==
  \A f \in Files :
    (rt.pc = "returned" /\ hist.executed[f] > 0 /\ hist.failed[f]) =>
      /\ Cardinality(CallsOf("onFailure", f)) = 1
      /\ \A k \in CallsOf("onFailure", f) :
           /\ \E s \in CallsOf("onFileStart", f) : s < k
           /\ \E s \in Summaries : k < s


(***************************************************************************)
(* The TestResults of a run (index.ts:93-150, 210-244, reporter.ts:27-35). *)
(***************************************************************************)
\* the failures of the results that carry file f's name
FailuresIn(tr, f) == {k \in DOMAIN tr.failures : tr.failures[k].filename = f}

\* the files that were executed, and those of them that failed
ExecutedFiles == {f \in Files : hist.executed[f] > 0}
FailedExecutions == {f \in ExecutedFiles : hist.failed[f]}

\* C40: the TestResults runTests returns are consistent: the passed and
\* the failed files add up to the files, the passed and the failed
\* assertions to the assertions; an executed file contributes at most one
\* failed assertion and at most one failure; and there are failures if and
\* only if there are failed files.
C40_TestResultsConsistent ==
  (rt.pc = "returned" /\ rt.testResults # None) =>
    LET tr == rt.testResults[1]
    IN  /\ tr.totalFiles = Len(rt.files)
        /\ tr.passedFiles >= 0 /\ tr.failedFiles >= 0
        /\ tr.passedFiles + tr.failedFiles = tr.totalFiles
        /\ tr.passedAssertions >= 0 /\ tr.failedAssertions >= 0
        /\ tr.totalAssertions = tr.passedAssertions + tr.failedAssertions
        /\ tr.failedAssertions = Cardinality(FailedExecutions)
        /\ tr.passedFiles = Cardinality(ExecutedFiles \ FailedExecutions)
        /\ \A f \in ExecutedFiles :
             Cardinality(FailuresIn(tr, f)) = IF f \in FailedExecutions THEN 1 ELSE 0
        /\ (tr.failures # <<>>) <=> (tr.failedFiles > 0)

\* a run of two files: one with parse errors, one executed and failed
C40_Witness ==
  /\ rt.pc = "returned"
  /\ rt.testResults # None
  /\ rt.testResults[1].totalFiles = 2
  /\ rt.testResults[1].failedFiles = 2
  /\ rt.testResults[1].failedAssertions = 1
  /\ Len(rt.testResults[1].failures) = 3

=============================================================================
